---- MODULE Spec2Model ----
(***************************************************************************)
(* Model of the JASN tree-walking interpreter: the static scope resolver   *)
(* (resolver.rs), the environment chain (environment.rs), the callables    *)
(* (callable.rs), the evaluator (interpreter.rs) and the driver `run`      *)
(* (lib.rs).  The AST is a tree of records that mirrors statements.rs and  *)
(* expressions.rs; record equality is the derived structural Eq/Hash of    *)
(* the Rust nodes, so the side table `locals` is keyed as in the source.   *)
(* Environments are frames of a heap addressed by index (Rc<RefCell<..>>   *)
(* handles are indices, 0 is None).                                        *)
(***************************************************************************)
EXTENDS Integers, Sequences, FiniteSets, TLC

(***************************************************************************)
(* Bounds of the model.                                                    *)
(***************************************************************************)
\* longest generated program (top-level statements drawn from StmtPool)
MaxStmts == 2
\* largest number literal of the generated scenario programs
MaxVal == 2
\* number of user-function calls and loop iterations one run may perform
MaxFuel == 12
\* most parameters of the functions of the arity programs
MaxParams == 1
\* most arguments of their calls, before and after the wrap-around of u8
MaxArgs == 2
\* statements after the prologue of an instance program
MaxOps == 3

(***************************************************************************)
(* token.rs: tokens and values                                             *)
(***************************************************************************)
\* Token: identifiers carry their lexeme and line (token_type and literal
\* are the same for every identifier, so they do not distinguish tokens)
Token(lexeme, line) == [lexeme |-> lexeme, line |-> line]

\* LiteralType
Number(n) == [t |-> "Number", n |-> n]
String(s) == [t |-> "String", s |-> s]
Bool(b) == [t |-> "Bool", b |-> b]
Array(elems) == [t |-> "Array", elems |-> elems]
\* the number that is not a number (f64::NAN)
NaN == [t |-> "Number", nan |-> TRUE]
Callable(c) == [t |-> "Callable", c |-> c]
Null == [t |-> "Null"]

\* Callable variants (callable.rs)
NativeFunction(arity, function) ==
  [kind |-> "NativeFunction", arity |-> arity, function |-> function]
JasnFunction(declaration, closure) ==
  [kind |-> "Function", declaration |-> declaration, closure |-> closure]
\* JasnClass: its name and its method table (name -> Callable)
JasnClass(name, methods) == [kind |-> "Class", name |-> name, methods |-> methods]
\* JasnInstanceRef: a handle to a JasnInstance of the instance heap; the
\* class of an instance never changes and is carried by the handle, the
\* fields are instances[ref]
JasnInstanceRef(ref, class) == [kind |-> "Instance", ref |-> ref, class |-> class]

\* a truthiness that takes the number zero for falsy as well
is_truthy_nonzero(v) ==
  CASE v.t = "Bool" -> v.b
    [] v.t = "Null" -> FALSE
    [] v.t = "Number" -> v # [t |-> "Number", n |-> 0]
    [] OTHER -> TRUE

\* LiteralType::is_truthy
is_truthy(v) ==
  CASE v.t = "Bool" -> v.b
    [] v.t = "Null" -> FALSE
    [] OTHER -> TRUE

Digit(d) == <<"0", "1", "2", "3", "4", "5", "6", "7", "8", "9">>[d + 1]

RECURSIVE NatStr(_)
NatStr(n) == IF n < 10 THEN Digit(n) ELSE NatStr(n \div 10) \o Digit(n % 10)

\* f64::to_string of an integral number
NumStr(n) == IF n < 0 THEN "-" \o NatStr(0 - n) ELSE NatStr(n)

\* Callable::to_string ({:?} of a String prints it quoted)
callable_to_string(c) ==
  CASE c.kind = "NativeFunction" -> "<fn native>"
    [] c.kind = "Function" -> "<fn \"" \o c.declaration.name.lexeme \o "\">"
    [] c.kind = "Class" -> "<class \"" \o c.name \o "\">"
    [] c.kind = "Instance" -> "<\"" \o c.class.name \o "\" instance>"

RECURSIVE to_string(_)
RECURSIVE JoinElems(_, _)
JoinElems(elems, i) ==
  IF i > Len(elems) THEN ""
  ELSE to_string(elems[i]) \o (IF i # Len(elems) THEN ", " ELSE "")
       \o JoinElems(elems, i + 1)

\* LiteralType::to_string
to_string(v) ==
  CASE v.t = "Null" -> "null"
    [] v.t = "Number" /\ "nan" \in DOMAIN v -> "NaN"
    [] v.t = "Number" -> NumStr(v.n)
    [] v.t = "Bool" -> (IF v.b THEN "yeah" ELSE "nah")
    [] v.t = "String" -> v.s
    [] v.t = "Callable" -> callable_to_string(v.c)
    [] v.t = "Array" -> "[" \o JoinElems(v.elems, 1) \o "]"

(***************************************************************************)
(* error_handler.rs: errors and results                                    *)
(***************************************************************************)
RuntimeError(line, msg) == [k |-> "RuntimeError", line |-> line, msg |-> msg]
ReturnError(value) == [k |-> "Return", value |-> value]
ResolverError(token, msg) == [k |-> "ResolverError", token |-> token, msg |-> msg]

\* Result<T, Error>; a panic (unwrap on None, index out of range) aborts
\* the process and is no Result at all; Diverge is the exhausted fuel
Ok(v) == [tag |-> "Ok", v |-> v]
Err(e) == [tag |-> "Err", e |-> e]
Panic(msg) == [tag |-> "Panic", msg |-> msg]
Diverge == [tag |-> "Diverge"]

\* an error handler: its two flags and what it printed to stderr
ErrorHandler_new == [had_error |-> FALSE, had_runtime_error |-> FALSE, log |-> <<>>]

\* the ResolverError arm of report_error: a static error sets had_error
report_resolver_error(h, error) ==
  [h EXCEPT !.had_error = TRUE, !.log = Append(@, error)]

\* ErrorHandler::report_error, the target of error!(self, e)
report_error(h, error) ==
  CASE error.k = "RuntimeError" ->
         [h EXCEPT !.had_runtime_error = TRUE, !.log = Append(@, error)]
    [] error.k = "Return" ->
         [h EXCEPT !.had_error = TRUE, !.log = Append(@, error)]
    [] error.k = "ResolverError" -> report_resolver_error(h, error)

(***************************************************************************)
(* environment.rs: frames of the heap                                      *)
(***************************************************************************)
EmptyMap == [x \in {} |-> Null]

\* Environment::new: allocates a frame, returned as the last index
Environment_new(heap, enclosing) ==
  Append(heap, [enclosing |-> enclosing, values |-> EmptyMap])

\* Environment::define
define(heap, env, name, value) ==
  [heap EXCEPT ![env].values = (name :> value) @@ @]

\* a lookup that stops at the current frame
get_current(heap, env, token) ==
  IF token.lexeme \in DOMAIN heap[env].values
    THEN Ok(heap[env].values[token.lexeme])
  ELSE Err(RuntimeError(token.line, "Undefined variable '" \o token.lexeme \o "'"))

\* Environment::get
RECURSIVE get(_, _, _)
get(heap, env, token) ==
  IF token.lexeme \in DOMAIN heap[env].values
    THEN Ok(heap[env].values[token.lexeme])
  ELSE IF heap[env].enclosing # 0
    THEN get(heap, heap[env].enclosing, token)
  ELSE Err(RuntimeError(token.line, "Undefined variable '" \o token.lexeme \o "'"))

\* Environment::get_at: values.get(name).unwrap() panics on a missing name
RECURSIVE get_at(_, _, _, _)
get_at(heap, env, distance, name) ==
  IF distance = 0
    THEN IF name \in DOMAIN heap[env].values
           THEN Ok(heap[env].values[name])
           ELSE Panic("unwrap on None")
  ELSE IF heap[env].enclosing # 0
    THEN get_at(heap, heap[env].enclosing, distance - 1, name)
  ELSE Err(RuntimeError(0, "Environment not found"))

\* Environment::assign: the result and the heap after it
RECURSIVE assign(_, _, _, _)
assign(heap, env, token, value) ==
  IF token.lexeme \in DOMAIN heap[env].values
    THEN [heap |-> define(heap, env, token.lexeme, value), r |-> Ok(Null)]
  ELSE IF heap[env].enclosing # 0
    THEN assign(heap, heap[env].enclosing, token, value)
  ELSE [heap |-> heap,
        r |-> Err(RuntimeError(token.line, "Undefined variable '" \o token.lexeme \o "'"))]

\* an assignment that goes by the name instead of the distance
assign_at_nearest(heap, env, distance, token, value) ==
  assign(heap, env, token, value)

\* Environment::assign_at: inserts at distance 0 whether or not the name is there
RECURSIVE assign_at(_, _, _, _, _)
assign_at(heap, env, distance, token, value) ==
  IF distance = 0
    THEN [heap |-> define(heap, env, token.lexeme, value), r |-> Ok(Null)]
  ELSE IF heap[env].enclosing # 0
    THEN assign_at(heap, heap[env].enclosing, distance - 1, token, value)
  ELSE [heap |-> heap, r |-> Err(RuntimeError(0, "Environment not found"))]

\* the frame `distance` parent links above env, 0 when the chain is shorter
RECURSIVE ancestor(_, _, _)
ancestor(heap, env, distance) ==
  IF distance = 0 \/ env = 0 THEN env
  ELSE ancestor(heap, heap[env].enclosing, distance - 1)

(***************************************************************************)
(* statements.rs, expressions.rs: the AST                                  *)
(***************************************************************************)
\* Option::None of an optional statement or expression
None == [k |-> "None"]

BlockStmt(statements) == [k |-> "Block", statements |-> statements]
ClassStmt(name, methods) == [k |-> "Class", name |-> name, methods |-> methods]
ExpressionStmt(expression) == [k |-> "Expression", expression |-> expression]
FunctionStmt(name, params, body) ==
  [k |-> "Function", name |-> name, params |-> params, body |-> body]
IfStmt(condition, then_branch, else_branch) ==
  [k |-> "If", condition |-> condition, then_branch |-> then_branch,
   else_branch |-> else_branch]
PrintStmt(expression) == [k |-> "Print", expression |-> expression]
ReturnStmt(keyword, value) == [k |-> "Return", keyword |-> keyword, value |-> value]
VariableStmt(name, initializer) ==
  [k |-> "Var", name |-> name, initializer |-> initializer]
WhileStmt(condition, body) == [k |-> "While", condition |-> condition, body |-> body]

AssignExpr(name, value) == [k |-> "Assign", name |-> name, value |-> value]
BinaryExpr(left, operator, right) ==
  [k |-> "Binary", left |-> left, operator |-> operator, right |-> right]
CallExpr(callee, paren, arguments) ==
  [k |-> "Call", callee |-> callee, paren |-> paren, arguments |-> arguments]
GetExpr(object, name) == [k |-> "Get", object |-> object, name |-> name]
SetExpr(object, name, value) ==
  [k |-> "Set", object |-> object, name |-> name, value |-> value]
GroupingExpr(expression) == [k |-> "Grouping", expression |-> expression]
ArrayExpr(values) == [k |-> "Array", values |-> values]
IndexExpr(object, index) == [k |-> "Index", object |-> object, index |-> index]
AssignIndexExpr(object, index, value) ==
  [k |-> "AssignIndex", object |-> object, index |-> index, value |-> value]
LiteralExpr(value) == [k |-> "Literal", value |-> value]
LogicalExpr(left, operator, right) ==
  [k |-> "Logical", left |-> left, operator |-> operator, right |-> right]
SuperExpr(keyword, method) == [k |-> "Super", keyword |-> keyword, method |-> method]
ThisExpr(keyword) == [k |-> "This", keyword |-> keyword]
UnaryExpr(operator, right) == [k |-> "Unary", operator |-> operator, right |-> right]
VariableExpr(name) == [k |-> "Variable", name |-> name]

\* an operator token: its TokenType and line
OpToken(token_type, line) == [token_type |-> token_type, line |-> line]

(***************************************************************************)
(* resolver.rs.  The resolver state rs holds the scope stack, the current  *)
(* function kind, the side table it fills in the interpreter (locals) and  *)
(* the error handler of `run`.  An operation returns the state after it    *)
(* and its Result.                                                         *)
(***************************************************************************)
RS(rs, r) == [rs |-> rs, r |-> r]

\* `let a = value;` followed by then(a): the value is computed once
Bind(value, then(_)) == then(value)

\* Resolver::new
Resolver_new(locals) ==
  [scopes |-> <<>>, current_function |-> "None", locals |-> locals,
   error_handler |-> ErrorHandler_new]

\* Resolver::begin_scope
begin_scope(rs) == [rs EXCEPT !.scopes = Append(@, [n \in {} |-> FALSE])]

\* Resolver::end_scope (Vec::pop of an empty stack is a no-op)
end_scope(rs) ==
  [rs EXCEPT !.scopes = IF Len(@) = 0 THEN @ ELSE SubSeq(@, 1, Len(@) - 1)]

\* declare without the test of the innermost scope
declare_unchecked(rs, name) ==
  IF Len(rs.scopes) = 0 THEN RS(rs, Ok(Null))
  ELSE RS([rs EXCEPT !.scopes[Len(rs.scopes)] = (name.lexeme :> FALSE) @@ @],
          Ok(Null))

\* Resolver::declare
declare(rs, name) ==
  IF Len(rs.scopes) = 0 THEN RS(rs, Ok(Null))
  ELSE IF name.lexeme \in DOMAIN rs.scopes[Len(rs.scopes)]
    THEN RS(rs, Err(ResolverError(name,
                "There's already a variable with this name in this scope.")))
  ELSE RS([rs EXCEPT !.scopes[Len(rs.scopes)] = (name.lexeme :> FALSE) @@ @],
          Ok(Null))

\* Resolver::define
Resolver_define(rs, name) ==
  IF Len(rs.scopes) = 0 THEN rs
  ELSE [rs EXCEPT !.scopes[Len(rs.scopes)] = (name.lexeme :> TRUE) @@ @]

\* Interpreter::resolve: the side table is keyed by the node's structure
Interpreter_resolve(locals, expr, depth) == (expr :> depth) @@ locals

\* the number of scopes between the innermost one and the first that has
\* the name, -1 when none has it
RECURSIVE FirstScope(_, _, _)
FirstScope(scopes, lexeme, i) ==
  IF i >= Len(scopes) THEN 0 - 1
  ELSE IF lexeme \in DOMAIN scopes[Len(scopes) - i] THEN i
  ELSE FirstScope(scopes, lexeme, i + 1)

\* Resolver::resolve_local
resolve_local(rs, expr, name) ==
  LET i == FirstScope(rs.scopes, name.lexeme, 0) IN
  IF i >= 0
    THEN RS([rs EXCEPT !.locals = Interpreter_resolve(@, expr, i)], Ok(Null))
    ELSE RS(rs, Ok(Null))

RECURSIVE resolve_stmt(_, _)
RECURSIVE resolve_expr(_, _)

\* one iteration of Resolver::resolve_block: an Err of the statement is
\* reported with error!(self, e) and the loop goes on
resolve_block_step(rs, statement) ==
  Bind(resolve_stmt(rs, statement), LAMBDA a :
    IF a.r.tag = "Err"
      THEN RS([a.rs EXCEPT !.error_handler = report_error(@, a.r.e)], Ok(Null))
      ELSE a)

\* Resolver::resolve_block
RECURSIVE resolve_block_from(_, _, _)
resolve_block_from(rs, statements, i) ==
  IF i > Len(statements) THEN RS(rs, Ok(Null))
  ELSE Bind(resolve_block_step(rs, statements[i]), LAMBDA a :
         IF a.r.tag = "Ok" THEN resolve_block_from(a.rs, statements, i + 1) ELSE a)

resolve_block(rs, statements) == resolve_block_from(rs, statements, 1)

\* the parameter loop of resolve_function: declare(param)? ; define(param)
RECURSIVE declare_params(_, _, _)
declare_params(rs, params, i) ==
  IF i > Len(params) THEN RS(rs, Ok(Null))
  ELSE LET a == declare(rs, params[i]) IN
       IF a.r.tag # "Ok" THEN a
       ELSE declare_params(Resolver_define(a.rs, params[i]), params, i + 1)

\* a function resolved in the scope that encloses it
resolve_function_unscoped(rs, function, function_type) ==
  LET enclosing_function == rs.current_function
      a == declare_params([rs EXCEPT !.current_function = function_type],
                          function.params, 1)
  IN IF a.r.tag # "Ok" THEN a
     ELSE Bind(resolve_block(a.rs, function.body), LAMBDA b :
            IF b.r.tag # "Ok" THEN b
            ELSE RS([b.rs EXCEPT !.current_function = enclosing_function],
                    Ok(Null)))

\* Resolver::resolve_function: the early return of a duplicate parameter
\* leaves the scope pushed and current_function changed
resolve_function(rs, function, function_type) ==
  LET enclosing_function == rs.current_function
      a == declare_params(begin_scope([rs EXCEPT !.current_function = function_type]),
                          function.params, 1)
  IN IF a.r.tag # "Ok" THEN a
     ELSE Bind(resolve_block(a.rs, function.body), LAMBDA b :
            IF b.r.tag # "Ok" THEN b
            ELSE RS([end_scope(b.rs) EXCEPT !.current_function = enclosing_function],
                    Ok(Null)))

\* statements::Visitor for Resolver
Resolver_visit_block(rs, block) ==
  Bind(resolve_block(begin_scope(rs), block.statements), LAMBDA a :
    IF a.r.tag # "Ok" THEN a ELSE RS(end_scope(a.rs), Ok(Null)))

\* the method loop of the class visitor: each method is resolved as a function
RECURSIVE resolve_methods(_, _, _)
resolve_methods(rs, methods, i) ==
  IF i > Len(methods) THEN RS(rs, Ok(Null))
  ELSE Bind(resolve_function(rs, methods[i], "Method"), LAMBDA a :
         IF a.r.tag # "Ok" THEN a ELSE resolve_methods(a.rs, methods, i + 1))

\* the class visitor of the resolver: the class name is declared and defined
\* in the enclosing scope, then the methods are resolved
Resolver_visit_class(rs, class) ==
  LET a == declare(rs, class.name) IN
  IF a.r.tag # "Ok" THEN a
  ELSE resolve_methods(Resolver_define(a.rs, class.name), class.methods, 1)

Resolver_visit_expression(rs, expression) == resolve_expr(rs, expression.expression)

Resolver_visit_function(rs, function) ==
  LET a == declare(rs, function.name) IN
  IF a.r.tag # "Ok" THEN a
  ELSE resolve_function(Resolver_define(a.rs, function.name), function, "Function")

Resolver_visit_if(rs, if_stmt) ==
  Bind(resolve_expr(rs, if_stmt.condition), LAMBDA a :
    IF a.r.tag # "Ok" THEN a
    ELSE Bind(resolve_stmt(a.rs, if_stmt.then_branch), LAMBDA b :
           IF b.r.tag # "Ok" THEN b
           ELSE IF if_stmt.else_branch.k # "None"
             THEN resolve_stmt(b.rs, if_stmt.else_branch)
             ELSE b))

Resolver_visit_print(rs, print) == resolve_expr(rs, print.expression)

Resolver_visit_return(rs, return_stmt) ==
  IF rs.current_function = "None"
    THEN RS(rs, Err(ResolverError(return_stmt.keyword,
                                  "Can't return from top-level code.")))
  ELSE IF return_stmt.value.k # "None" THEN resolve_expr(rs, return_stmt.value)
  ELSE RS(rs, Ok(Null))

Resolver_visit_variable_stmt(rs, variable) ==
  LET a == declare(rs, variable.name) IN
  IF a.r.tag # "Ok" THEN a
  ELSE Bind(IF variable.initializer.k # "None"
              THEN resolve_expr(a.rs, variable.initializer)
              ELSE a,
            LAMBDA b :
              IF b.r.tag # "Ok" THEN b
              ELSE RS(Resolver_define(b.rs, variable.name), Ok(Null)))

Resolver_visit_while(rs, while_stmt) ==
  Bind(resolve_expr(rs, while_stmt.condition), LAMBDA a :
    IF a.r.tag # "Ok" THEN a ELSE resolve_stmt(a.rs, while_stmt.body))

\* expressions::Visitor for Resolver
Resolver_visit_assign(rs, assign_expr) ==
  Bind(resolve_expr(rs, assign_expr.value), LAMBDA a :
    IF a.r.tag # "Ok" THEN a ELSE resolve_local(a.rs, assign_expr, assign_expr.name))

Resolver_visit_binary(rs, binary) ==
  Bind(resolve_expr(rs, binary.left), LAMBDA a :
    IF a.r.tag # "Ok" THEN a ELSE resolve_expr(a.rs, binary.right))

\* for_each(|arg| self.resolve_expr(arg).unwrap()): an Err is a panic.
\* The expressions lo..hi are visited in order; the range is halved so that
\* the depth of the evaluation stays logarithmic in the number of arguments
RECURSIVE resolve_each_unwrap(_, _, _, _)
resolve_each_unwrap(rs, exprs, lo, hi) ==
  IF lo > hi THEN RS(rs, Ok(Null))
  ELSE IF lo = hi
    THEN Bind(resolve_expr(rs, exprs[lo]), LAMBDA a :
           IF a.r.tag = "Err" THEN RS(a.rs, Panic("unwrap on Err")) ELSE a)
  ELSE LET mid == (lo + hi) \div 2 IN
       Bind(resolve_each_unwrap(rs, exprs, lo, mid), LAMBDA a :
         IF a.r.tag # "Ok" THEN a ELSE resolve_each_unwrap(a.rs, exprs, mid + 1, hi))

Resolver_visit_call(rs, call_expr) ==
  Bind(resolve_expr(rs, call_expr.callee), LAMBDA a :
    IF a.r.tag # "Ok" THEN a
    ELSE resolve_each_unwrap(a.rs, call_expr.arguments, 1, Len(call_expr.arguments)))

\* todo!()
Resolver_visit_get(rs, get_expr) == RS(rs, Panic("not yet implemented"))

Resolver_visit_grouping(rs, grouping) == resolve_expr(rs, grouping.expression)

\* for_each(|val| self.resolve_expr(val).unwrap())
Resolver_visit_array(rs, array) ==
  resolve_each_unwrap(rs, array.values, 1, Len(array.values))

Resolver_visit_index(rs, index) ==
  Bind(resolve_expr(rs, index.object), LAMBDA a :
    IF a.r.tag # "Ok" THEN a ELSE resolve_expr(a.rs, index.index))

Resolver_visit_literal(rs, literal) == RS(rs, Ok(Null))

Resolver_visit_logical(rs, logical) ==
  Bind(resolve_expr(rs, logical.left), LAMBDA a :
    IF a.r.tag # "Ok" THEN a ELSE resolve_expr(a.rs, logical.right))

\* todo!()
Resolver_visit_set(rs, set_expr) == RS(rs, Panic("not yet implemented"))

\* todo!()
Resolver_visit_super(rs, super_expr) == RS(rs, Panic("not yet implemented"))

\* todo!()
Resolver_visit_this(rs, this) == RS(rs, Panic("not yet implemented"))

Resolver_visit_unary(rs, unary) == resolve_expr(rs, unary.right)

\* visit_variable without the test of the declared-but-undefined name
Resolver_visit_variable_unchecked(rs, variable) ==
  resolve_local(rs, variable, variable.name)

Resolver_visit_variable(rs, variable) ==
  IF /\ Len(rs.scopes) > 0
     /\ variable.name.lexeme \in DOMAIN rs.scopes[Len(rs.scopes)]
     /\ rs.scopes[Len(rs.scopes)][variable.name.lexeme] = FALSE
    THEN RS(rs, Err(ResolverError(variable.name,
                "Can't read local variables in its own initializer.")))
    ELSE resolve_local(rs, variable, variable.name)

\* Stmt::accept with the resolver as visitor
resolve_stmt(rs, statement) ==
  CASE statement.k = "Block" -> Resolver_visit_block(rs, statement)
    [] statement.k = "Class" -> Resolver_visit_class(rs, statement)
    [] statement.k = "Expression" -> Resolver_visit_expression(rs, statement)
    [] statement.k = "Function" -> Resolver_visit_function(rs, statement)
    [] statement.k = "If" -> Resolver_visit_if(rs, statement)
    [] statement.k = "Print" -> Resolver_visit_print(rs, statement)
    [] statement.k = "Return" -> Resolver_visit_return(rs, statement)
    [] statement.k = "Var" -> Resolver_visit_variable_stmt(rs, statement)
    [] statement.k = "While" -> Resolver_visit_while(rs, statement)

\* Expr::accept with the resolver as visitor (resolve_expr drops the value)
resolve_expr(rs, expression) ==
  CASE expression.k = "Assign" -> Resolver_visit_assign(rs, expression)
    [] expression.k = "Binary" -> Resolver_visit_binary(rs, expression)
    [] expression.k = "Call" -> Resolver_visit_call(rs, expression)
    [] expression.k = "Get" -> Resolver_visit_get(rs, expression)
    [] expression.k = "Set" -> Resolver_visit_set(rs, expression)
    [] expression.k = "Grouping" -> Resolver_visit_grouping(rs, expression)
    [] expression.k = "Array" -> Resolver_visit_array(rs, expression)
    [] expression.k = "Index" -> Resolver_visit_index(rs, expression)
    [] expression.k = "Literal" -> Resolver_visit_literal(rs, expression)
    [] expression.k = "Logical" -> Resolver_visit_logical(rs, expression)
    [] expression.k = "Super" -> Resolver_visit_super(rs, expression)
    [] expression.k = "This" -> Resolver_visit_this(rs, expression)
    [] expression.k = "Unary" -> Resolver_visit_unary(rs, expression)
    [] expression.k = "Variable" -> Resolver_visit_variable(rs, expression)

(***************************************************************************)
(* callable.rs, interpreter.rs.  The interpreter state st holds the heap   *)
(* of frames, the current environment, the side table locals, what was     *)
(* printed (output), the interpreter's error handler, the heap of class    *)
(* instances, the remaining fuel                                           *)
(* and a history of the environment accesses and calls (events).  The      *)
(* global environment is frame 1.                                          *)
(***************************************************************************)
ST(st, r) == [st |-> st, r |-> r]

global == 1

Record(st, event) == [st EXCEPT !.events = Append(@, event)]

\* native_functions.rs: the natives installed in the global frame
NativeNames == {"clock", "input", "len", "print", "sleep"}

NativeArity(name) == IF name \in {"clock", "input"} THEN 0 ELSE 1

\* define_native_functions that defines nothing
define_native_functions_none(values) == values

\* NativeFunctions::define_native_functions
define_native_functions(values) ==
  [name \in NativeNames |->
     Callable(NativeFunction(NativeArity(name), name))] @@ values

\* Interpreter::new: the heap holding the global environment
Interpreter_new_heap ==
  <<[enclosing |-> 0, values |-> define_native_functions(EmptyMap)]>>

\* the number of values of a u8
U8 == 256

\* as u8
AsU8(n) == n % U8

\* Callable::arity
arity(callable) ==
  CASE callable.kind = "NativeFunction" -> callable.arity
    [] callable.kind = "Function" -> AsU8(Len(callable.declaration.params))
    [] callable.kind = "Class" -> 0
    [] callable.kind = "Instance" -> 0

\* the host function of the native `len`
native_len(st, arguments) ==
  IF Len(arguments) = 0 THEN ST(st, Panic("index out of bounds"))
  ELSE LET a == arguments[1] IN
       CASE a.t = "String" -> ST(st, Ok(Number(Len(a.s))))
         [] a.t = "Array" -> ST(st, Ok(Number(Len(a.elems))))
         [] a.t = "Callable" -> ST(st, Ok(Number(arity(a.c))))
         [] OTHER -> ST(st, Ok(Null))

\* JasnInstance::new: allocates an instance of the class without fields,
\* returned as the last index of the instance heap
JasnInstance_new(instances, class) ==
  Append(instances, [class |-> class, fields |-> EmptyMap])

\* a property access that asks the class before the fields
JasnInstance_get_method_first(instance, name) ==
  IF name.lexeme \in DOMAIN instance.class.methods
    THEN Ok(Callable(instance.class.methods[name.lexeme]))
  ELSE IF name.lexeme \in DOMAIN instance.fields
    THEN Ok(instance.fields[name.lexeme])
  ELSE Err(RuntimeError(name.line, "Undefined property '" \o name.lexeme \o "'"))

\* JasnInstance::get: the field, else the method of the class as it is in
\* the method table
JasnInstance_get(instance, name) ==
  IF name.lexeme \in DOMAIN instance.fields
    THEN Ok(instance.fields[name.lexeme])
  ELSE IF name.lexeme \in DOMAIN instance.class.methods
    THEN Ok(Callable(instance.class.methods[name.lexeme]))
  ELSE Err(RuntimeError(name.line, "Undefined property '" \o name.lexeme \o "'"))

\* JasnInstance::set
JasnInstance_set(instance, name, value) ==
  [instance EXCEPT !.fields = (name :> value) @@ @]

RECURSIVE evaluate(_, _)
RECURSIVE execute(_, _)

\* the statement loop of Interpreter::execute_block: the first Err restores
\* the environment, is reported and is returned
RECURSIVE execute_block_from(_, _, _, _)
\* execute_block that goes on with the next statement after an error
execute_block_from_continued(st, statements, i, previous) ==
  IF i > Len(statements)
    THEN LET restored == [st EXCEPT !.environment = previous] IN
         ST(Record(restored,
                   [ev |-> "execute_block", previous |-> previous,
                    left |-> st.environment,
                    environment |-> restored.environment, r |-> Ok(Null)]),
            Ok(Null))
  ELSE Bind(execute(st, statements[i]), LAMBDA a :
         CASE a.r.tag = "Ok" -> execute_block_from(a.st, statements, i + 1, previous)
           [] a.r.tag = "Err" ->
                execute_block_from(
                  [a.st EXCEPT !.error_handler = report_error(@, a.r.e)],
                  statements, i + 1, previous)
           [] OTHER -> a)

\* execute_block whose error path keeps the environment of the block
execute_block_from_unrestored(st, statements, i, previous) ==
  IF i > Len(statements)
    THEN ST(Record([st EXCEPT !.environment = previous],
                   [ev |-> "execute_block", previous |-> previous,
                    left |-> st.environment, environment |-> previous,
                    r |-> Ok(Null)]),
            Ok(Null))
  ELSE Bind(execute(st, statements[i]), LAMBDA a :
         CASE a.r.tag = "Ok" -> execute_block_from(a.st, statements, i + 1, previous)
           [] a.r.tag = "Err" ->
                ST(Record([a.st EXCEPT !.error_handler = report_error(@, a.r.e)],
                          [ev |-> "execute_block", previous |-> previous,
                           left |-> a.st.environment,
                           environment |-> a.st.environment, r |-> a.r]),
                   a.r)
           [] OTHER -> a)

\* the loop of execute_block from statement i on; `previous` is restored on
\* both exits
execute_block_from(st, statements, i, previous) ==
  IF i > Len(statements)
    THEN LET restored == [st EXCEPT !.environment = previous] IN
         ST(Record(restored,
                   [ev |-> "execute_block", previous |-> previous,
                    left |-> st.environment,
                    environment |-> restored.environment, r |-> Ok(Null)]),
            Ok(Null))
  ELSE Bind(execute(st, statements[i]), LAMBDA a :
         CASE a.r.tag = "Ok" -> execute_block_from(a.st, statements, i + 1, previous)
           [] a.r.tag = "Err" ->
                LET restored == [a.st EXCEPT !.environment = previous,
                                             !.error_handler = report_error(@, a.r.e)]
                IN ST(Record(restored,
                             [ev |-> "execute_block", previous |-> previous,
                              left |-> a.st.environment,
                              environment |-> restored.environment, r |-> a.r]),
                      a.r)
           [] OTHER -> a)

\* Interpreter::execute_block
execute_block(st, statements, environment) ==
  execute_block_from([st EXCEPT !.environment = environment], statements, 1,
                     st.environment)

\* Callable::call, Function arm: the environment the body runs in is the
\* closure handle itself (Rc::clone); heap is the heap after obtaining it
call_environment(heap, closure) == [heap |-> heap, environment |-> closure]

\* the argument loop of the Function arm: params[i] panics past the last one
RECURSIVE bind_arguments(_, _, _, _, _)
bind_arguments(heap, environment, params, arguments, i) ==
  IF i > Len(arguments) THEN [heap |-> heap, r |-> Ok(Null)]
  ELSE IF i > Len(params) THEN [heap |-> heap, r |-> Panic("index out of bounds")]
  ELSE bind_arguments(define(heap, environment, params[i].lexeme, arguments[i]),
                      environment, params, arguments, i + 1)

\* the match on the result of the body that drops the returned value
call_result_null(r) ==
  CASE r.tag = "Ok" -> Ok(Null)
    [] r.tag = "Err" -> (IF r.e.k = "Return" THEN Ok(Null) ELSE r)
    [] OTHER -> r

\* the result of the Function arm from the result of execute_block
call_result(r) ==
  CASE r.tag = "Ok" -> Ok(Null)
    [] r.tag = "Err" -> (IF r.e.k = "Return" THEN Ok(r.e.value) ELSE r)
    [] OTHER -> r

\* Callable::call, Function arm
call_function(st, function, arguments) ==
  IF st.fuel = 0 THEN ST(st, Diverge)
  ELSE
    LET e == call_environment(st.heap, function.closure)
        b == bind_arguments(e.heap, e.environment, function.declaration.params,
                            arguments, 1)
        st1 == Record([st EXCEPT !.heap = b.heap, !.fuel = @ - 1],
                 [ev |-> "call", function |-> function.declaration.name.lexeme,
                  closure |-> function.closure, environment |-> e.environment,
                  caller |-> st.environment, frames |-> Len(st.heap),
                  before |-> st.heap, bound |-> b.heap,
                  params |-> function.declaration.params])
    IN IF b.r.tag # "Ok" THEN ST(st1, b.r)
       ELSE Bind(execute_block(st1, function.declaration.body, e.environment),
                 LAMBDA c : ST(c.st, call_result(c.r)))

\* the Class arm handing out the first instance again
call_class_shared(st, class, arguments) ==
  LET instances == IF st.instances = <<>> THEN JasnInstance_new(st.instances, class)
                   ELSE st.instances
      instance == JasnInstanceRef(1, class)
  IN ST(Record([st EXCEPT !.instances = instances],
               [ev |-> "instantiate", class |-> class, instance |-> instance.ref,
                before |-> st.instances, after |-> instances]),
        Ok(Callable(instance)))

\* Callable::call, Class arm: a new instance, wrapped as a value
call_class(st, class, arguments) ==
  LET instances == JasnInstance_new(st.instances, class)
      instance == JasnInstanceRef(Len(instances), class)
  IN ST(Record([st EXCEPT !.instances = instances],
               [ev |-> "instantiate", class |-> class, instance |-> instance.ref,
                before |-> st.instances, after |-> instances]),
        Ok(Callable(instance)))

\* Callable::call, Instance arm: todo!()
call_instance(st, instance, arguments) == ST(st, Panic("not yet implemented"))

\* Callable::call
call(st, callable, arguments) ==
  CASE callable.kind = "NativeFunction" /\ callable.function = "len" ->
         native_len(st, arguments)
    [] callable.kind = "Function" -> call_function(st, callable, arguments)
    [] callable.kind = "Class" -> call_class(st, callable, arguments)
    [] callable.kind = "Instance" -> call_instance(st, callable, arguments)

\* Interpreter::look_up_variable
look_up_variable(st, name, expr) ==
  IF expr \in DOMAIN st.locals
    THEN LET distance == st.locals[expr]
             r == get_at(st.heap, st.environment, distance, name.lexeme)
         IN ST(Record(st, [ev |-> "get_at", expr |-> expr, distance |-> distance,
                           environment |-> st.environment,
                           frame |-> ancestor(st.heap, st.environment, distance),
                           heap |-> st.heap, r |-> r]),
               r)
    ELSE LET r == get(st.heap, global, name)
         IN ST(Record(st, [ev |-> "get_global", expr |-> expr,
                           environment |-> st.environment, heap |-> st.heap,
                           r |-> r]),
               r)

\* visit_block without a frame of its own: the block runs in the current one
Interpreter_visit_block_shared(st, block) ==
  execute_block(st, block.statements, st.environment)

\* statements::Visitor for Interpreter
Interpreter_visit_block(st, block) ==
  LET heap == Environment_new(st.heap, st.environment) IN
  execute_block([st EXCEPT !.heap = heap], block.statements, Len(heap))

\* a method table whose functions close over the global frame
class_methods_global(methods, closure) ==
  [name \in {methods[i].name.lexeme : i \in DOMAIN methods} |->
     LET last == CHOOSE i \in DOMAIN methods :
                   /\ methods[i].name.lexeme = name
                   /\ \A j \in DOMAIN methods :
                        methods[j].name.lexeme = name => j <= i
     IN JasnFunction(methods[last], 1)]

\* the method table of visit_class: a later method of the same name
\* replaces an earlier one (HashMap::insert)
class_methods(methods, closure) ==
  [name \in {methods[i].name.lexeme : i \in DOMAIN methods} |->
     LET last == CHOOSE i \in DOMAIN methods :
                   /\ methods[i].name.lexeme = name
                   /\ \A j \in DOMAIN methods :
                        methods[j].name.lexeme = name => j <= i
     IN JasnFunction(methods[last], closure)]

Interpreter_visit_class(st, class) ==
  LET declared == define(st.heap, st.environment, class.name.lexeme, Null)
      jasn_class == JasnClass(class.name.lexeme,
                              class_methods(class.methods, st.environment))
      b == assign(declared, st.environment, class.name, Callable(jasn_class))
  IN IF b.r.tag # "Ok" THEN ST([st EXCEPT !.heap = declared], b.r)
     ELSE ST(Record([st EXCEPT !.heap = b.heap],
                    [ev |-> "visit_class", class |-> class,
                     environment |-> st.environment, before |-> st.heap,
                     declared |-> declared, after |-> b.heap]),
             Ok(Null))

Interpreter_visit_expression(st, expression) ==
  Bind(evaluate(st, expression.expression), LAMBDA a :
    IF a.r.tag # "Ok" THEN a ELSE ST(a.st, Ok(Null)))

Interpreter_visit_function(st, function) ==
  ST([st EXCEPT !.heap = define(@, st.environment, function.name.lexeme,
                                Callable(JasnFunction(function, st.environment)))],
     Ok(Null))

Interpreter_visit_if(st, if_stmt) ==
  Bind(evaluate(st, if_stmt.condition), LAMBDA a :
    IF a.r.tag # "Ok" THEN a
    ELSE IF is_truthy(a.r.v) THEN execute(a.st, if_stmt.then_branch)
    ELSE IF if_stmt.else_branch.k # "None" THEN execute(a.st, if_stmt.else_branch)
    ELSE ST(a.st, Ok(Null)))

Interpreter_visit_print(st, print) ==
  Bind(evaluate(st, print.expression), LAMBDA a :
    IF a.r.tag # "Ok" THEN a
    ELSE ST([a.st EXCEPT !.output = Append(@, to_string(a.r.v))], Ok(Null)))

Interpreter_visit_return(st, return_stmt) ==
  IF return_stmt.value.k # "None"
    THEN Bind(evaluate(st, return_stmt.value), LAMBDA a :
           IF a.r.tag # "Ok" THEN a ELSE ST(a.st, Err(ReturnError(a.r.v))))
    ELSE ST(st, Err(ReturnError(Null)))

Interpreter_visit_variable_stmt(st, variable) ==
  Bind(IF variable.initializer.k # "None"
         THEN evaluate(st, variable.initializer)
         ELSE ST(st, Ok(Null)),
       LAMBDA a :
         IF a.r.tag # "Ok" THEN a
         ELSE LET heap == define(a.st.heap, a.st.environment,
                                 variable.name.lexeme, a.r.v)
              IN ST(Record([a.st EXCEPT !.heap = heap],
                           [ev |-> "define", name |-> variable.name.lexeme,
                            environment |-> a.st.environment,
                            before |-> a.st.heap, after |-> heap]),
                    Ok(Null)))

RECURSIVE Interpreter_visit_while(_, _)
Interpreter_visit_while(st, while_stmt) ==
  Bind(evaluate(st, while_stmt.condition), LAMBDA a :
    IF a.r.tag # "Ok" THEN a
    ELSE IF ~is_truthy(a.r.v) THEN ST(a.st, Ok(Null))
    ELSE IF a.st.fuel = 0 THEN ST(a.st, Diverge)
    ELSE Bind(execute([a.st EXCEPT !.fuel = @ - 1], while_stmt.body), LAMBDA b :
           IF b.r.tag # "Ok" THEN b ELSE Interpreter_visit_while(b.st, while_stmt)))

\* expressions::Visitor for Interpreter
Interpreter_visit_assign(st, assign_expr) ==
  Bind(evaluate(st, assign_expr.value), LAMBDA a :
  IF a.r.tag # "Ok" THEN a
  ELSE IF assign_expr \in DOMAIN a.st.locals
    THEN LET distance == a.st.locals[assign_expr]
             frame == ancestor(a.st.heap, a.st.environment, distance)
             b == assign_at(a.st.heap, a.st.environment, distance,
                            assign_expr.name, a.r.v)
             st1 == Record([a.st EXCEPT !.heap = b.heap],
                      [ev |-> "assign_at", expr |-> assign_expr,
                       distance |-> distance, environment |-> a.st.environment,
                       frame |-> frame,
                       bound |-> frame # 0 /\
                                 assign_expr.name.lexeme \in DOMAIN a.st.heap[frame].values,
                       value |-> a.r.v, before |-> a.st.heap, after |-> b.heap,
                       r |-> b.r])
         IN IF b.r.tag # "Ok" THEN ST(st1, b.r) ELSE ST(st1, Ok(a.r.v))
    ELSE LET b == assign(a.st.heap, global, assign_expr.name, a.r.v)
             st1 == Record([a.st EXCEPT !.heap = b.heap],
                      [ev |-> "assign_global", expr |-> assign_expr,
                       environment |-> a.st.environment, value |-> a.r.v,
                       before |-> a.st.heap, after |-> b.heap, r |-> b.r])
         IN IF b.r.tag # "Ok" THEN ST(st1, b.r) ELSE ST(st1, Ok(a.r.v)))

\* a conversion that takes what is no number for zero
try_into_f64_coerced(v, line) == IF v.t = "Number" THEN Ok(v.n) ELSE Ok(0)

\* TryInto<f64> for LiteralType, mapped to a RuntimeError of the line
try_into_f64(v, line) ==
  IF v.t = "Number" THEN Ok(v.n)
  ELSE Err(RuntimeError(line, "Cannot convert to decimal"))

\* the Slash arm without the test of the right operand
divide_unchecked(left_num, right_num, line) ==
  CASE right_num = 0 -> Ok(Number(0))
    [] right_num > 0 /\ left_num % right_num = 0 ->
         Ok(Number(left_num \div right_num))

\* the Slash arm on two numbers; the quotients of the model are integral
divide(left_num, right_num, line) ==
  CASE right_num = 0 -> Err(RuntimeError(line, "Division by zero."))
    [] right_num > 0 /\ left_num % right_num = 0 ->
         Ok(Number(left_num \div right_num))

\* the Modulo arm on two numbers: the remainder of f64 has the sign of the
\* left operand, which is not negative in the model, and is NaN for a zero
\* right operand
modulo(left_num, right_num, line) ==
  CASE right_num = 0 -> Ok(NaN)
    [] right_num > 0 /\ left_num >= 0 -> Ok(Number(left_num % right_num))
    [] right_num < 0 /\ left_num >= 0 -> Ok(Number(left_num % (0 - right_num)))

\* the operators on two numbers
numeric_binary(left, right, line, op) ==
  LET l == try_into_f64(left, line) IN
  IF l.tag # "Ok" THEN l
  ELSE LET r == try_into_f64(right, line) IN
       IF r.tag # "Ok" THEN r
       ELSE IF op \in {"Slash", "SlashEqual"} THEN divide(l.v, r.v, line)
       ELSE IF op = "Modulo" THEN modulo(l.v, r.v, line)
       ELSE Ok(CASE op = "Greater" -> Bool(l.v > r.v)
                 [] op = "GreaterEqual" -> Bool(l.v >= r.v)
                 [] op = "Less" -> Bool(l.v < r.v)
                 [] op = "LessEqual" -> Bool(l.v <= r.v)
                 [] op \in {"Minus", "MinusEqual", "MinusMinus"} -> Number(l.v - r.v)
                 [] op \in {"Star", "StarEqual"} -> Number(l.v * r.v))

\* the Plus arm that adds numbers only
plus_numeric(left, right, line) ==
  IF left.t = "Number" /\ right.t = "Number"
    THEN Ok(Number(left.n + right.n))
  ELSE Err(RuntimeError(line, "Invalid Operands."))

\* the Plus arm: the match on the pair of operands
plus(left, right, line) ==
  IF left.t = "Number" /\ right.t = "Number"
    THEN Ok(Number(left.n + right.n))
  ELSE IF left.t = "String"
    THEN Ok(String(left.s \o to_string(right)))
  ELSE IF right.t = "String"
    THEN Ok(String(to_string(left) \o right.s))
  ELSE Err(RuntimeError(line, "Invalid Operands."))

Interpreter_visit_binary(st, binary) ==
  Bind(evaluate(st, binary.left), LAMBDA a :
  IF a.r.tag # "Ok" THEN a
  ELSE Bind(evaluate(a.st, binary.right), LAMBDA b :
  IF b.r.tag # "Ok" THEN b
  ELSE LET left == a.r.v
           right == b.r.v
           line == binary.operator.line
           op == binary.operator.token_type
       IN ST(b.st,
          CASE op = "BangEqual" /\ left.t # "Callable" /\ right.t # "Callable" ->
                 Ok(Bool(left # right))
            [] op = "EqualEqual" /\ left.t # "Callable" /\ right.t # "Callable" ->
                 Ok(Bool(left = right))
            [] op \in {"Greater", "GreaterEqual", "Less", "LessEqual",
                        "Minus", "MinusEqual", "MinusMinus", "Slash", "SlashEqual",
                        "Star", "StarEqual", "Modulo"} ->
                 numeric_binary(left, right, line, op)
            [] op \in {"Plus", "PlusEqual", "PlusPlus"} -> plus(left, right, line))))

\* the argument loop of visit_call: the arguments lo..hi are evaluated left
\* to right and the first failure stops the loop (the range is halved to
\* keep the depth of the evaluation logarithmic)
RECURSIVE evaluate_arguments(_, _, _, _)
evaluate_arguments(st, arguments, lo, hi) ==
  IF lo > hi THEN ST(st, Ok(<<>>))
  ELSE IF lo = hi
    THEN Bind(evaluate(st, arguments[lo]), LAMBDA a :
           IF a.r.tag # "Ok" THEN a ELSE ST(a.st, Ok(<<a.r.v>>)))
  ELSE LET mid == (lo + hi) \div 2 IN
       Bind(evaluate_arguments(st, arguments, lo, mid), LAMBDA a :
         IF a.r.tag # "Ok" THEN a
         ELSE Bind(evaluate_arguments(a.st, arguments, mid + 1, hi), LAMBDA b :
                IF b.r.tag # "Ok" THEN b ELSE ST(b.st, Ok(a.r.v \o b.r.v))))

\* the arity test of visit_call: both sides are u8
arity_mismatch(count, function) == AsU8(count) # arity(function)

Interpreter_visit_call(st, call_expr) ==
  Bind(evaluate(st, call_expr.callee), LAMBDA a :
  IF a.r.tag # "Ok" THEN a
  ELSE Bind(evaluate_arguments(a.st, call_expr.arguments, 1,
                               Len(call_expr.arguments)), LAMBDA b :
  IF b.r.tag # "Ok" THEN b
  ELSE IF a.r.v.t # "Callable"
    THEN ST(b.st, Err(RuntimeError(call_expr.paren.line,
                                   "Can only call functions and classes.")))
  ELSE LET function == a.r.v.c
           arguments == b.r.v
           mismatch == arity_mismatch(Len(arguments), function)
           st1 == Record(b.st, [ev |-> "visit_call", kind |-> function.kind,
                                supplied |-> Len(arguments),
                                declared |-> IF function.kind = "Function"
                                               THEN Len(function.declaration.params)
                                               ELSE arity(function),
                                invoked |-> ~mismatch])
       IN IF mismatch
            THEN ST(st1, Err(RuntimeError(call_expr.paren.line,
                     "Expected " \o NumStr(arity(function)) \o " arguments but found "
                     \o NumStr(Len(arguments)) \o ".")))
            ELSE call(st1, function, arguments)))

Interpreter_visit_get(st, get_expr) ==
  Bind(evaluate(st, get_expr.object), LAMBDA a :
    IF a.r.tag # "Ok" THEN a
    ELSE IF a.r.v.t = "Callable"
      THEN IF a.r.v.c.kind = "Instance"
             THEN LET r == JasnInstance_get(a.st.instances[a.r.v.c.ref], get_expr.name)
                  IN ST(Record(a.st, [ev |-> "get", instance |-> a.r.v.c.ref,
                                      name |-> get_expr.name.lexeme,
                                      heap |-> a.st.heap,
                                      instances |-> a.st.instances, r |-> r]),
                        r)
             ELSE ST(a.st, Err(RuntimeError(get_expr.name.line,
                                            "Only instances have properties.")))
      ELSE ST(a.st, Err(RuntimeError(get_expr.name.line,
                                     "Only class instances have properties."))))

\* a Set that evaluates its value before it looks at the object
Interpreter_visit_set_value_first(st, set_expr) ==
  Bind(evaluate(st, set_expr.object), LAMBDA a :
    IF a.r.tag # "Ok" THEN a
    ELSE Bind(evaluate(a.st, set_expr.value), LAMBDA b :
      IF b.r.tag # "Ok" THEN b
      ELSE ST(b.st, Err(RuntimeError(set_expr.name.line,
                                     "Only instances have fields.")))))

Interpreter_visit_set(st, set_expr) ==
  Bind(evaluate(st, set_expr.object), LAMBDA a :
    IF a.r.tag # "Ok" THEN a
    ELSE IF a.r.v.t = "Callable" /\ a.r.v.c.kind = "Instance"
      THEN Bind(evaluate(a.st, set_expr.value), LAMBDA b :
             IF b.r.tag # "Ok" THEN b
             ELSE LET instance == a.r.v.c.ref
                      instances ==
                        [b.st.instances EXCEPT ![instance] =
                           JasnInstance_set(@, set_expr.name.lexeme, b.r.v)]
                  IN ST(Record([b.st EXCEPT !.instances = instances],
                               [ev |-> "set", instance |-> instance,
                                name |-> set_expr.name.lexeme, value |-> b.r.v,
                                before |-> b.st.instances, after |-> instances]),
                        Ok(b.r.v)))
      ELSE ST(a.st, Err(RuntimeError(set_expr.name.line,
                                     "Only instances have fields."))))

Interpreter_visit_grouping(st, grouping) == evaluate(st, grouping.expression)

Interpreter_visit_array(st, array) ==
  Bind(evaluate_arguments(st, array.values, 1, Len(array.values)), LAMBDA a :
    IF a.r.tag # "Ok" THEN a ELSE ST(a.st, Ok(Array(a.r.v))))

\* `n as usize` of a number: the cast saturates, a negative number is 0
AsUsize(n) == IF n < 0 THEN 0 ELSE n

\* the result of visit_index from the two values
index_result(array_value, index_value) ==
  IF array_value.t = "Array"
    THEN IF index_value.t = "Number"
           THEN IF AsUsize(index_value.n) < Len(array_value.elems)
                  THEN Ok(array_value.elems[AsUsize(index_value.n) + 1])
                  ELSE Err(RuntimeError(0, "Array index out of bounds."))
           ELSE Err(RuntimeError(0, "Array index must be a number."))
    ELSE Err(RuntimeError(0, "Attempted to index a non-array value."))

Interpreter_visit_index(st, index) ==
  Bind(evaluate(st, index.object), LAMBDA a :
    IF a.r.tag # "Ok" THEN a
    ELSE Bind(evaluate(a.st, index.index), LAMBDA b :
           IF b.r.tag # "Ok" THEN b
           ELSE LET r == index_result(a.r.v, b.r.v) IN
                ST(Record(b.st, [ev |-> "index", object |-> a.r.v,
                                 index |-> b.r.v, r |-> r]),
                   r)))

\* the result of visit_assign_index from the three values: the element is
\* written into the copy of the array that the evaluation of the object
\* yielded, which is dropped
assign_index_result(array_val, index_val, value_val) ==
  IF array_val.t = "Array"
    THEN IF index_val.t = "Number"
           THEN IF AsUsize(index_val.n) < Len(array_val.elems)
                  THEN Ok(value_val)
                  ELSE Err(RuntimeError(0, "Array index out of bounds."))
           ELSE Err(RuntimeError(0, "Array index must be a number."))
    ELSE Err(RuntimeError(0, "Attempted to index a non-array value."))

\* an index assignment that writes the changed array back to the variable
\* the object names
Interpreter_visit_assign_index_stored(st, assign_index) ==
  Bind(evaluate(st, assign_index.object), LAMBDA a :
    IF a.r.tag # "Ok" THEN a
    ELSE Bind(evaluate(a.st, assign_index.index), LAMBDA b :
      IF b.r.tag # "Ok" THEN b
      ELSE Bind(evaluate(b.st, assign_index.value), LAMBDA c :
        IF c.r.tag # "Ok" THEN c
        ELSE LET r == assign_index_result(a.r.v, b.r.v, c.r.v) IN
             IF r.tag = "Ok" /\ assign_index.object.k = "Variable"
               THEN ST([c.st EXCEPT !.heap =
                          define(@, global, assign_index.object.name.lexeme,
                                 Array([a.r.v.elems EXCEPT
                                          ![AsUsize(b.r.v.n) + 1] = c.r.v]))],
                       r)
               ELSE ST(c.st, r))))

Interpreter_visit_assign_index(st, assign_index) ==
  Bind(evaluate(st, assign_index.object), LAMBDA a :
    IF a.r.tag # "Ok" THEN a
    ELSE Bind(evaluate(a.st, assign_index.index), LAMBDA b :
      IF b.r.tag # "Ok" THEN b
      ELSE Bind(evaluate(b.st, assign_index.value), LAMBDA c :
        IF c.r.tag # "Ok" THEN c
        ELSE ST(c.st, assign_index_result(a.r.v, b.r.v, c.r.v)))))

Interpreter_visit_literal(st, literal) == ST(st, Ok(literal.value))

Interpreter_visit_logical(st, logical) ==
  Bind(evaluate(st, logical.left), LAMBDA a :
    IF a.r.tag # "Ok" THEN a
    ELSE IF logical.operator.token_type = "Or"
      THEN (IF is_truthy(a.r.v) THEN a ELSE evaluate(a.st, logical.right))
      ELSE (IF ~is_truthy(a.r.v) THEN a ELSE evaluate(a.st, logical.right)))

\* todo!()
Interpreter_visit_super(st, super_expr) == ST(st, Panic("not yet implemented"))

\* todo!()
Interpreter_visit_this(st, this) == ST(st, Panic("not yet implemented"))

Interpreter_visit_unary(st, unary) ==
  Bind(evaluate(st, unary.right), LAMBDA a :
  IF a.r.tag # "Ok" THEN a
  ELSE LET line == unary.operator.line IN
       CASE unary.operator.token_type = "Minus" ->
              LET n == try_into_f64(a.r.v, line) IN
              IF n.tag # "Ok" THEN ST(a.st, n) ELSE ST(a.st, Ok(Number(0 - n.v)))
         [] unary.operator.token_type = "Bang" ->
              ST(a.st, Ok(Bool(~is_truthy(a.r.v))))
         [] OTHER -> ST(a.st, Err(RuntimeError(line, "Invalid unary operator."))))

Interpreter_visit_variable(st, variable) ==
  look_up_variable(st, variable.name, variable)

\* Interpreter::execute: Stmt::accept with the interpreter as visitor
execute(st, stmt) ==
  CASE stmt.k = "Block" -> Interpreter_visit_block(st, stmt)
    [] stmt.k = "Class" -> Interpreter_visit_class(st, stmt)
    [] stmt.k = "Expression" -> Interpreter_visit_expression(st, stmt)
    [] stmt.k = "Function" -> Interpreter_visit_function(st, stmt)
    [] stmt.k = "If" -> Interpreter_visit_if(st, stmt)
    [] stmt.k = "Print" -> Interpreter_visit_print(st, stmt)
    [] stmt.k = "Return" -> Interpreter_visit_return(st, stmt)
    [] stmt.k = "Var" -> Interpreter_visit_variable_stmt(st, stmt)
    [] stmt.k = "While" -> Interpreter_visit_while(st, stmt)

\* Interpreter::evaluate: Expr::accept with the interpreter as visitor
evaluate(st, expr) ==
  CASE expr.k = "Assign" -> Interpreter_visit_assign(st, expr)
    [] expr.k = "AssignIndex" -> Interpreter_visit_assign_index(st, expr)
    [] expr.k = "Binary" -> Interpreter_visit_binary(st, expr)
    [] expr.k = "Call" -> Interpreter_visit_call(st, expr)
    [] expr.k = "Get" -> Interpreter_visit_get(st, expr)
    [] expr.k = "Set" -> Interpreter_visit_set(st, expr)
    [] expr.k = "Grouping" -> Interpreter_visit_grouping(st, expr)
    [] expr.k = "Array" -> Interpreter_visit_array(st, expr)
    [] expr.k = "Index" -> Interpreter_visit_index(st, expr)
    [] expr.k = "Literal" -> Interpreter_visit_literal(st, expr)
    [] expr.k = "Logical" -> Interpreter_visit_logical(st, expr)
    [] expr.k = "Super" -> Interpreter_visit_super(st, expr)
    [] expr.k = "This" -> Interpreter_visit_this(st, expr)
    [] expr.k = "Unary" -> Interpreter_visit_unary(st, expr)
    [] expr.k = "Variable" -> Interpreter_visit_variable(st, expr)

\* interpret unwrapping the result of execute: an Err aborts the process
interpret_step_unwrap(st, stmt) ==
  Bind(execute(st, stmt), LAMBDA a :
    IF a.r.tag = "Err" THEN ST(a.st, Panic("unwrap on Err")) ELSE a)

\* one iteration of Interpreter::interpret: an Err of the statement is
\* reported with error!(self, e) and the loop goes on
interpret_step(st, stmt) ==
  Bind(execute(st, stmt), LAMBDA a :
    IF a.r.tag = "Err"
      THEN ST([a.st EXCEPT !.error_handler = report_error(@, a.r.e)], Ok(Null))
      ELSE a)

\* run without the had_error test after the resolver pass
run_after_resolve_unchecked(had_error) == "interpret"

\* lib.rs run: what follows the resolver pass
run_after_resolve(had_error) == IF had_error THEN "done" ELSE "interpret"

(***************************************************************************)
(* The programs handed to `run`.                                           *)
(***************************************************************************)
Id(name, line) == Token(name, line)
Ref(name, line) == VariableExpr(Token(name, line))
Num(n) == LiteralExpr(Number(n))
Str(s) == LiteralExpr(String(s))
Plus(left, right, line) == BinaryExpr(left, OpToken("Plus", line), right)
CallOf(name, arguments, line) ==
  CallExpr(Ref(name, line), OpToken("RightParen", line), arguments)

\* the line of a token: every token on line 1, or on the line given
Line(oneLine, l) == IF oneLine THEN 1 ELSE l

\* where a scenario is placed: at top level, in a block, in the body of a
\* function that is called, and the nestings of the two
Placements == {"top", "block", "function", "block_function", "function_block"}
LocalPlacements == Placements \ {"top"}

Place(core, placement, oneLine) ==
  LET l == Line(oneLine, 20)
      decl(body) == FunctionStmt(Id("wrap", l), <<>>, body)
      go == ExpressionStmt(CallOf("wrap", <<>>, l + 1))
  IN CASE placement = "top" -> core
       [] placement = "block" -> <<BlockStmt(core)>>
       [] placement = "function" -> <<decl(core), go>>
       [] placement = "block_function" -> <<BlockStmt(<<decl(core), go>>)>>
       [] placement = "function_block" -> <<decl(<<BlockStmt(core)>>), go>>

\* var a = v1; { var a = v2; print a; } print a;
ShadowCore(v1, v2, oneLine) ==
  <<VariableStmt(Id("a", Line(oneLine, 1)), Num(v1)),
    BlockStmt(<<VariableStmt(Id("a", Line(oneLine, 2)), Num(v2)),
                PrintStmt(Ref("a", Line(oneLine, 3)))>>),
    PrintStmt(Ref("a", Line(oneLine, 4)))>>

ShadowProgram(v1, v2, placement, oneLine) ==
  Place(ShadowCore(v1, v2, oneLine), placement, oneLine)

ShadowPrograms ==
  {ShadowProgram(v1, v2, p, o) :
     v1 \in 0..MaxVal, v2 \in 0..MaxVal, p \in Placements, o \in BOOLEAN}

\* funk counter() { var i = 0; funk inc() { i = i + 1; print i; } return inc; }
\* var c = counter(); c(); c();
CounterProgram(oneLine) ==
  LET l(n) == Line(oneLine, n) IN
  <<FunctionStmt(Id("counter", l(1)), <<>>,
      <<VariableStmt(Id("i", l(2)), Num(0)),
        FunctionStmt(Id("inc", l(3)), <<>>,
          <<ExpressionStmt(AssignExpr(Id("i", l(4)), Plus(Ref("i", l(4)), Num(1), l(4)))),
            PrintStmt(Ref("i", l(5)))>>),
        ReturnStmt(Id("return", l(6)), Ref("inc", l(6)))>>),
    VariableStmt(Id("c", l(7)), CallOf("counter", <<>>, l(7))),
    ExpressionStmt(CallOf("c", <<>>, l(8))),
    ExpressionStmt(CallOf("c", <<>>, l(9)))>>

CounterPrograms == {CounterProgram(o) : o \in BOOLEAN}

\* var x = 0; funk set() { x = v; } funk show() { print x; } set(); show();
SharedCore(v, oneLine) ==
  LET l(n) == Line(oneLine, n) IN
  <<VariableStmt(Id("x", l(1)), Num(0)),
    FunctionStmt(Id("set", l(2)), <<>>,
      <<ExpressionStmt(AssignExpr(Id("x", l(3)), Num(v)))>>),
    FunctionStmt(Id("show", l(4)), <<>>, <<PrintStmt(Ref("x", l(5)))>>),
    ExpressionStmt(CallOf("set", <<>>, l(6))),
    ExpressionStmt(CallOf("show", <<>>, l(7)))>>

SharedProgram(v, placement, oneLine) == Place(SharedCore(v, oneLine), placement, oneLine)

SharedPrograms ==
  {SharedProgram(v, p, o) : v \in 1..MaxVal, p \in Placements, o \in BOOLEAN}

\* funk f(p1, .., pn) { print "body"; }  f(0, .., 0);  print "next";
\* with n parameters and m arguments
ArityProgram(n, m) ==
  <<FunctionStmt(Id("f", 1), [i \in 1..n |-> Id("p" \o NumStr(i), 1)],
      <<PrintStmt(Str("body"))>>),
    ExpressionStmt(CallOf("f", [i \in 1..m |-> Num(0)], 2)),
    PrintStmt(Str("next"))>>

\* print len(0, .., 0);  print "next";  with m arguments
NativeArityProgram(m) ==
  <<PrintStmt(CallOf("len", [i \in 1..m |-> Str("ab")], 1)),
    PrintStmt(Str("next"))>>

ArgCounts == (0..MaxArgs) \cup {U8 + k : k \in 0..MaxParams}

ArityPrograms ==
  {ArityProgram(n, m) : n \in 0..MaxParams, m \in ArgCounts}
  \cup {NativeArityProgram(m) : m \in ArgCounts}

\* var x = <x, x + 1, (x) or -x>;  print 7;
SelfRefForms == {"variable", "binary", "grouping", "unary"}

SelfRefInitializer(form, line) ==
  CASE form = "variable" -> Ref("x", line)
    [] form = "binary" -> Plus(Ref("x", line), Num(1), line)
    [] form = "grouping" -> GroupingExpr(Ref("x", line))
    [] form = "unary" -> UnaryExpr(OpToken("Minus", line), Ref("x", line))

SelfRefCore(form, oneLine) ==
  <<VariableStmt(Id("x", Line(oneLine, 1)), SelfRefInitializer(form, Line(oneLine, 1))),
    PrintStmt(Num(7))>>

SelfRefProgram(form, placement, oneLine) ==
  Place(SelfRefCore(form, oneLine), placement, oneLine)

SelfRefPrograms ==
  {SelfRefProgram(f, p, o) : f \in SelfRefForms, p \in Placements, o \in BOOLEAN}

\* the statements the generated programs are made of
StmtPool ==
  { VariableStmt(Id("a", 1), Num(1)),
    PrintStmt(Ref("a", 2)),
    FunctionStmt(Id("f", 3), <<Id("p", 3)>>,
      <<PrintStmt(Ref("p", 3)), ReturnStmt(Id("return", 3), Ref("p", 3))>>),
    PrintStmt(CallOf("f", <<Num(2)>>, 4)),
    ExpressionStmt(CallOf("f", <<Num(1), Num(2)>>, 5)),
    BlockStmt(<<VariableStmt(Id("a", 6), Num(2)), PrintStmt(Ref("a", 6))>>),
    BlockStmt(<<VariableStmt(Id("b", 7), Ref("b", 7))>>),
    ReturnStmt(Id("return", 8), Num(1)),
    ExpressionStmt(AssignExpr(Id("a", 9), Plus(Ref("a", 9), Num(1), 9))),
    BlockStmt(<<VariableStmt(Id("c", 10), Num(1)),
                FunctionStmt(Id("g", 10), <<>>,
                  <<ReturnStmt(Id("return", 10), Ref("c", 10))>>),
                PrintStmt(CallOf("g", <<>>, 10))>>) }

\* all sequences of at most n statements of the pool
RECURSIVE SeqsUpTo(_, _)
SeqsUpTo(S, n) ==
  IF n = 0 THEN {<<>>}
  ELSE LET shorter == SeqsUpTo(S, n - 1) IN
       shorter \cup {Append(q, e) : q \in shorter, e \in S}

GeneratedPrograms == SeqsUpTo(StmtPool, MaxStmts)

\* a name declared twice in one scope:
\*   var a = 1; var a = 2;      funk a() {} funk a() {}
\*   var a = 1; funk a() {}     funk f(a, a) {}
DupKinds == {"var_var", "fun_fun", "var_fun", "params"}

DupCore(kind, oneLine) ==
  LET l1 == Line(oneLine, 1)
      l2 == Line(oneLine, 2)
  IN CASE kind = "var_var" ->
            <<VariableStmt(Id("a", l1), Num(1)), VariableStmt(Id("a", l2), Num(2))>>
       [] kind = "fun_fun" ->
            <<FunctionStmt(Id("a", l1), <<>>, <<>>), FunctionStmt(Id("a", l2), <<>>, <<>>)>>
       [] kind = "var_fun" ->
            <<VariableStmt(Id("a", l1), Num(1)), FunctionStmt(Id("a", l2), <<>>, <<>>)>>
       [] kind = "params" ->
            <<FunctionStmt(Id("f", l1), <<Id("a", l1), Id("a", l2)>>, <<>>)>>

DupProgram(kind, placement, oneLine) ==
  Place(DupCore(kind, oneLine) \o <<PrintStmt(Num(7))>>, placement, oneLine)

DupPrograms ==
  {DupProgram(k, p, o) : k \in DupKinds, p \in Placements, o \in BOOLEAN}

\* a name of an enclosing scope declared again in an inner scope:
\*   var a = 1; { var a = 2; }      var a = 1; funk f(a) {}
RedeclareKinds == {"block", "param", "body"}

RedeclareCore(kind, oneLine) ==
  LET l1 == Line(oneLine, 1)
      l2 == Line(oneLine, 2)
  IN CASE kind = "block" ->
            <<VariableStmt(Id("a", l1), Num(1)),
              BlockStmt(<<VariableStmt(Id("a", l2), Num(2))>>)>>
       [] kind = "param" ->
            <<VariableStmt(Id("a", l1), Num(1)),
              FunctionStmt(Id("f", l2), <<Id("a", l2)>>, <<>>)>>
       [] kind = "body" ->
            <<VariableStmt(Id("a", l1), Num(1)),
              FunctionStmt(Id("f", l2), <<>>, <<VariableStmt(Id("a", l2), Num(2))>>)>>

RedeclareProgram(kind, placement, oneLine) ==
  Place(RedeclareCore(kind, oneLine) \o <<PrintStmt(Num(7))>>, placement, oneLine)

RedeclarePrograms ==
  {RedeclareProgram(k, p, o) : k \in RedeclareKinds, p \in Placements, o \in BOOLEAN}

\* return 1;  bare, or in a block, an if or a while
ReturnContexts == {"bare", "block", "if", "while"}

ReturnIn(context, line) ==
  LET return_stmt == ReturnStmt(Id("return", line), Num(1))
  IN CASE context = "bare" -> return_stmt
       [] context = "block" -> BlockStmt(<<return_stmt>>)
       [] context = "if" -> IfStmt(LiteralExpr(Bool(TRUE)), return_stmt, None)
       [] context = "while" -> WhileStmt(LiteralExpr(Bool(TRUE)), return_stmt)

\* what precedes the statement with the return: nothing, funk g() {},
\* funk g(a, b) {} or funk g(a, a) {}
ReturnPrecedings == {"none", "function", "function_params", "function_same_params"}

Preceding(preceding) ==
  CASE preceding = "none" -> <<>>
    [] preceding = "function" -> <<FunctionStmt(Id("g", 1), <<>>, <<>>)>>
    [] preceding = "function_params" ->
         <<FunctionStmt(Id("g", 1), <<Id("a", 1), Id("b", 1)>>, <<>>)>>
    [] preceding = "function_same_params" ->
         <<FunctionStmt(Id("g", 1), <<Id("a", 1), Id("a", 1)>>, <<>>)>>

\* <preceding> <return outside of a function> print 7;
OutsideReturnProgram(context, preceding) ==
  Preceding(preceding) \o <<ReturnIn(context, 2), PrintStmt(Num(7))>>

\* <preceding> funk f() { <return> } print f();
InsideReturnProgram(context, preceding) ==
  Preceding(preceding)
  \o <<FunctionStmt(Id("f", 2), <<>>, <<ReturnIn(context, 2)>>),
       PrintStmt(CallOf("f", <<>>, 3))>>

ReturnPrograms ==
  {OutsideReturnProgram(c, p) : c \in ReturnContexts, p \in ReturnPrecedings}
  \cup {InsideReturnProgram(c, p) : c \in ReturnContexts, p \in ReturnPrecedings}

\* var z = 0;  print l / <right>;  print "next";
\* the right operand is zero as a literal, a difference, a product, a
\* negation or a variable, or it is one
ZeroForms == {"literal", "difference", "product", "negation", "variable"}
DivisionForms == ZeroForms \cup {"one"}
DivisionOperators == {"Slash", "SlashEqual"}

DivisionRight(form, l) ==
  CASE form = "literal" -> Num(0)
    [] form = "difference" -> BinaryExpr(Num(1), OpToken("Minus", 2), Num(1))
    [] form = "product" -> BinaryExpr(Num(0), OpToken("Star", 2), Num(l))
    [] form = "negation" -> UnaryExpr(OpToken("Minus", 2), Num(0))
    [] form = "variable" -> Ref("z", 2)
    [] form = "one" -> Num(1)

DivisionProgram(l, form, operator) ==
  <<VariableStmt(Id("z", 1), Num(0)),
    PrintStmt(BinaryExpr(Num(l), OpToken(operator, 2), DivisionRight(form, l))),
    PrintStmt(Str("next"))>>

Dividends == (0 - MaxVal)..MaxVal

DivisionPrograms ==
  {DivisionProgram(l, f, o) : l \in Dividends, f \in DivisionForms,
                              o \in DivisionOperators}

\* print <object>[<index>];  print "next";
IndexObjects == {"array", "empty", "number", "string", "null"}

IndexObject(object) ==
  CASE object = "array" -> ArrayExpr(<<Num(10), Num(20)>>)
    [] object = "empty" -> ArrayExpr(<<>>)
    [] object = "number" -> Num(5)
    [] object = "string" -> Str("ab")
    [] object = "null" -> LiteralExpr(Null)

\* a number (a negative one is the negation of a literal), or a value that
\* is no number
IndexNumbers == (0 - MaxVal)..(MaxVal + 1)
IndexOthers == {String("0"), Bool(TRUE), Null}

IndexNumber(n) ==
  IF n < 0 THEN UnaryExpr(OpToken("Minus", 1), Num(0 - n)) ELSE Num(n)

IndexProgram(object, index) ==
  <<PrintStmt(IndexExpr(IndexObject(object), index)), PrintStmt(Str("next"))>>

IndexPrograms ==
  {IndexProgram(o, IndexNumber(n)) : o \in IndexObjects, n \in IndexNumbers}
  \cup {IndexProgram(o, LiteralExpr(v)) : o \in IndexObjects, v \in IndexOthers}

\* class C { m() {} }  var a = C();  var b = C();  followed by up to MaxOps
\* statements that set and read the fields of a and b
InstancePrologue ==
  <<ClassStmt(Id("C", 1), <<FunctionStmt(Id("m", 1), <<>>, <<>>)>>),
    VariableStmt(Id("a", 2), CallOf("C", <<>>, 2)),
    VariableStmt(Id("b", 3), CallOf("C", <<>>, 3))>>

InstanceOps ==
  {ExpressionStmt(SetExpr(Ref("a", 4), Id("x", 4), Num(1))),
   ExpressionStmt(SetExpr(Ref("b", 4), Id("x", 4), Num(2))),
   ExpressionStmt(SetExpr(Ref("a", 4), Id("m", 4), Num(1))),
   PrintStmt(GetExpr(Ref("a", 5), Id("x", 5))),
   PrintStmt(GetExpr(Ref("b", 5), Id("x", 5))),
   PrintStmt(GetExpr(Ref("a", 6), Id("m", 6))),
   PrintStmt(GetExpr(Ref("b", 6), Id("m", 6))),
   VariableStmt(Id("b", 7), Ref("a", 7))}

InstancePrograms == {InstancePrologue \o ops : ops \in SeqsUpTo(InstanceOps, MaxOps)}

\* var a = 1; <exit>  placed in a block or a function body, then
\* print "next";  the exit completes, raises a runtime error or returns
ExitKinds == {"completes", "runtime_error", "return"}

ExitStmt(kind) ==
  CASE kind = "completes" -> PrintStmt(Ref("a", 2))
    [] kind = "runtime_error" ->
         PrintStmt(BinaryExpr(Ref("a", 2), OpToken("Slash", 2), Num(0)))
    [] kind = "return" -> ReturnStmt(Id("return", 2), Ref("a", 2))

ExitProgram(kind, placement) ==
  Place(<<VariableStmt(Id("a", 1), Num(1)), ExitStmt(kind)>>, placement, FALSE)
  \o <<PrintStmt(Str("next"))>>

ExitPrograms ==
  {ExitProgram(k, p) : k \in ExitKinds, p \in LocalPlacements}

\* print <left> + <right>;  print "next";
PlusOperands == {"zero", "number", "string", "empty", "yeah", "nah", "null",
                 "array", "native"}
PlusOperators == {"Plus", "PlusEqual"}

PlusOperand(operand) ==
  CASE operand = "zero" -> Num(0)
    [] operand = "number" -> Num(MaxVal)
    [] operand = "string" -> Str("x")
    [] operand = "empty" -> Str("")
    [] operand = "yeah" -> LiteralExpr(Bool(TRUE))
    [] operand = "nah" -> LiteralExpr(Bool(FALSE))
    [] operand = "null" -> LiteralExpr(Null)
    [] operand = "array" -> ArrayExpr(<<Num(1), Str("y")>>)
    [] operand = "native" -> Ref("len", 1)

PlusProgram(left, right, operator) ==
  <<PrintStmt(BinaryExpr(PlusOperand(left), OpToken(operator, 1), PlusOperand(right))),
    PrintStmt(Str("next"))>>

PlusPrograms ==
  {PlusProgram(l, r, o) : l \in PlusOperands, r \in PlusOperands, o \in PlusOperators}

\* class C {}  var i = C();  i(0, .., 0);  print "next";  with n arguments
InstanceCallProgram(n) ==
  <<ClassStmt(Id("C", 1), <<>>),
    VariableStmt(Id("i", 2), CallOf("C", <<>>, 2)),
    ExpressionStmt(CallOf("i", [k \in 1..n |-> Num(0)], 3)),
    PrintStmt(Str("next"))>>

InstanceCallPrograms == {InstanceCallProgram(n) : n \in 0..MaxArgs}

\* class C { me() { return this; } }  var a = C();  print a.me();
\* print "next";
ThisProgram ==
  <<ClassStmt(Id("C", 1),
      <<FunctionStmt(Id("me", 1), <<>>,
          <<ReturnStmt(Id("return", 1), ThisExpr(Id("this", 1)))>>)>>),
    VariableStmt(Id("a", 2), CallOf("C", <<>>, 2)),
    PrintStmt(CallExpr(GetExpr(Ref("a", 3), Id("me", 3)), OpToken("RightParen", 3),
                       <<>>)),
    PrintStmt(Str("next"))>>

\* class C { m() {} }  var a = C();  funk f() {}  var y = 0;  followed by
\* print <object>.x;  or  <object>.x = (y = 1);  and then  print y;
PropertyObjects ==
  {"number", "string", "bool", "null", "array", "native", "function", "class"}

PropertyAccesses == {"get", "set"}

PropertyObject(object) ==
  CASE object = "number" -> Num(1)
    [] object = "string" -> Str("ab")
    [] object = "bool" -> LiteralExpr(Bool(TRUE))
    [] object = "null" -> LiteralExpr(Null)
    [] object = "array" -> ArrayExpr(<<Num(1)>>)
    [] object = "native" -> Ref("clock", 5)
    [] object = "function" -> Ref("f", 5)
    [] object = "class" -> Ref("C", 5)

PropertyProgram(object, access) ==
  <<ClassStmt(Id("C", 1), <<FunctionStmt(Id("m", 1), <<>>, <<>>)>>),
    VariableStmt(Id("a", 2), CallOf("C", <<>>, 2)),
    FunctionStmt(Id("f", 3), <<>>, <<>>),
    VariableStmt(Id("y", 4), Num(0)),
    IF access = "get"
      THEN PrintStmt(GetExpr(PropertyObject(object), Id("x", 5)))
      ELSE ExpressionStmt(SetExpr(PropertyObject(object), Id("x", 5),
                                  GroupingExpr(AssignExpr(Id("y", 5), Num(1))))),
    PrintStmt(Ref("y", 6))>>

PropertyPrograms ==
  {PropertyProgram(o, a) : o \in PropertyObjects, a \in PropertyAccesses}

\* var a = <object>;  print a[<index>];  print a[<index>] = 7;
\* print a[<index>];
AssignIndexProgram(object, index) ==
  <<VariableStmt(Id("a", 1), IndexObject(object)),
    PrintStmt(IndexExpr(Ref("a", 2), index)),
    PrintStmt(AssignIndexExpr(Ref("a", 3), index, Num(7))),
    PrintStmt(IndexExpr(Ref("a", 4), index))>>

AssignIndexPrograms ==
  {AssignIndexProgram(o, IndexNumber(n)) : o \in IndexObjects, n \in IndexNumbers}
  \cup {AssignIndexProgram(o, LiteralExpr(v)) : o \in IndexObjects, v \in IndexOthers}

ClassPlacements == {"top", "block"}

\* var C = 5;  var v = 1;  { var w = 2; class C { <methods> } }  print C;
\* or the class at top level:  var v = 1;  class C { <methods> }  print C;
ClassMethodLists ==
  {<<>>,
   <<FunctionStmt(Id("m", 3), <<>>, <<>>)>>,
   <<FunctionStmt(Id("m", 3), <<>>, <<>>), FunctionStmt(Id("n", 4), <<Id("p", 4)>>, <<>>)>>,
   <<FunctionStmt(Id("m", 3), <<>>, <<>>), FunctionStmt(Id("m", 4), <<Id("p", 4)>>, <<>>)>>}

ClassProgram(placement, methods) ==
  IF placement = "block"
    THEN <<VariableStmt(Id("C", 1), Num(5)),
           VariableStmt(Id("v", 1), Num(1)),
           BlockStmt(<<VariableStmt(Id("w", 2), Num(2)),
                       ClassStmt(Id("C", 3), methods)>>),
           PrintStmt(Ref("C", 6))>>
    ELSE <<VariableStmt(Id("v", 1), Num(1)),
           ClassStmt(Id("C", 3), methods),
           PrintStmt(Ref("C", 5))>>

ClassPrograms ==
  {ClassProgram(p, m) : p \in ClassPlacements, m \in ClassMethodLists}

InterpreterPrograms ==
  InstancePrograms \cup InstanceCallPrograms \cup {ThisProgram} \cup PropertyPrograms
  \cup AssignIndexPrograms \cup ClassPrograms

\* <name>(0, .., 0);  var <name> = 7;  print <name>;  the call has one
\* argument more than the native takes when wrong, as many when not (only
\* the host function of len is modelled, so only len is invoked)
NativeProgram(name, wrong) ==
  LET count == IF name \in {"clock", "input"} THEN 0 ELSE 1
      arguments == [i \in 1..(IF wrong THEN count + 1 ELSE count) |-> Str("ab")]
  IN <<PrintStmt(CallOf(name, arguments, 1)),
       VariableStmt(Id(name, 2), Num(7)),
       PrintStmt(Ref(name, 3))>>

NativePrograms ==
  {NativeProgram(name, TRUE) : name \in NativeNames}
  \cup {NativeProgram("len", FALSE)}

\* funk f(n) { var local = n; if (n > 0) <inner call>; print n; print local; }
\* f(n0);  the inner call is f(n - 1), or g(n) with funk g(m) { f(m - 1); }
RecursionKinds == {"direct", "indirect"}

RecursionProgram(kind, n0) ==
  LET inner == IF kind = "direct"
                 THEN CallOf("f", <<BinaryExpr(Ref("n", 3), OpToken("Minus", 3), Num(1))>>, 3)
                 ELSE CallOf("g", <<Ref("n", 3)>>, 3)
      f == FunctionStmt(Id("f", 1), <<Id("n", 1)>>,
             <<VariableStmt(Id("local", 2), Ref("n", 2)),
               IfStmt(BinaryExpr(Ref("n", 3), OpToken("Greater", 3), Num(0)),
                      ExpressionStmt(inner), None),
               PrintStmt(Ref("n", 4)),
               PrintStmt(Ref("local", 5))>>)
      g == FunctionStmt(Id("g", 6), <<Id("m", 6)>>,
             <<ExpressionStmt(
                 CallOf("f", <<BinaryExpr(Ref("m", 7), OpToken("Minus", 7), Num(1))>>, 7))>>)
      go == ExpressionStmt(CallOf("f", <<Num(n0)>>, 8))
  IN IF kind = "direct" THEN <<f, go>> ELSE <<f, g, go>>

RecursionPrograms ==
  {RecursionProgram(k, n0) : k \in RecursionKinds, n0 \in 0..MaxVal}

\* programs in which two nodes have the same name and are resolved at
\* different depths, or one of them not at all; written on one line the two
\* nodes are equal as values:
\*   var a = 1; { var a = 2; { print a; } } print a;
\*   { var a = 1; { print a; } print a; }
\*   var a = 1; { var a = 2; { a = 3; } print a; } a = 3; print a;
NodeKinds == {"unresolved_read", "depths_read", "unresolved_assign"}

NodeProgram(kind, oneLine) ==
  LET l(n) == Line(oneLine, n)
      set(n) == ExpressionStmt(AssignExpr(Id("a", l(n)), Num(3)))
  IN CASE kind = "unresolved_read" ->
            <<VariableStmt(Id("a", l(1)), Num(1)),
              BlockStmt(<<VariableStmt(Id("a", l(2)), Num(2)),
                          BlockStmt(<<PrintStmt(Ref("a", l(3)))>>)>>),
              PrintStmt(Ref("a", l(4)))>>
       [] kind = "depths_read" ->
            <<BlockStmt(<<VariableStmt(Id("a", l(1)), Num(1)),
                          BlockStmt(<<PrintStmt(Ref("a", l(2)))>>),
                          PrintStmt(Ref("a", l(3)))>>)>>
       [] kind = "unresolved_assign" ->
            <<VariableStmt(Id("a", l(1)), Num(1)),
              BlockStmt(<<VariableStmt(Id("a", l(2)), Num(2)),
                          BlockStmt(<<set(3)>>),
                          PrintStmt(Ref("a", l(4)))>>),
              set(5),
              PrintStmt(Ref("a", l(6)))>>

NodeOutput(kind) ==
  CASE kind = "unresolved_read" -> <<"2", "1">>
    [] kind = "depths_read" -> <<"1", "1">>
    [] kind = "unresolved_assign" -> <<"3", "3">>

NodePrograms == {NodeProgram(k, o) : k \in NodeKinds, o \in BOOLEAN}

\* funk f() { print "before"; <exit>; print "after"; }  print f();
\* print "next";  the exit is a return of v, bare or nested in a block, an
\* if, a while or all three, followed by a second return; or no return; or
\* a statement that raises a runtime error
ResultKinds == {"bare", "block", "if", "while", "nested", "none", "runtime_error"}
ReturningKinds == {"bare", "block", "if", "while", "nested"}

ResultExit(kind, v) ==
  LET return_stmt == ReturnStmt(Id("return", 2), Num(v))
      yeah == LiteralExpr(Bool(TRUE))
  IN CASE kind = "bare" -> return_stmt
       [] kind = "block" -> BlockStmt(<<return_stmt>>)
       [] kind = "if" -> IfStmt(yeah, return_stmt, None)
       [] kind = "while" -> WhileStmt(yeah, return_stmt)
       [] kind = "nested" ->
            IfStmt(yeah, WhileStmt(yeah, BlockStmt(<<return_stmt, PrintStmt(Str("after"))>>)),
                   None)
       [] kind = "none" -> PrintStmt(Str("body"))
       [] kind = "runtime_error" ->
            PrintStmt(BinaryExpr(Num(v), OpToken("Slash", 2), Num(0)))

ResultProgram(kind, v) ==
  <<FunctionStmt(Id("f", 1), <<>>,
      <<PrintStmt(Str("before")),
        ResultExit(kind, v),
        PrintStmt(Str("after")),
        ReturnStmt(Id("return", 3), Str("late"))>>),
    PrintStmt(CallOf("f", <<>>, 4)),
    PrintStmt(Str("next"))>>

\* the body of the variant without a return ends without one
NoReturnProgram ==
  <<FunctionStmt(Id("f", 1), <<>>, <<PrintStmt(Str("before")), PrintStmt(Str("body"))>>),
    PrintStmt(CallOf("f", <<>>, 4)),
    PrintStmt(Str("next"))>>

ResultPrograms ==
  {ResultProgram(k, v) : k \in ResultKinds \ {"none"}, v \in 0..MaxVal}
  \cup {NoReturnProgram}

\* var a = 0;  { a = v; print "in"; print a / 0; print "after"; a = 9; }
\* print a;  the block as it is, inside another block that goes on with
\* print "outer"; a = 9;  or as the body of a function that is called
AbortKinds == {"block", "nested", "function"}

AbortProgram(kind, v) ==
  LET set(n, line) == ExpressionStmt(AssignExpr(Id("a", line), Num(n)))
      failing == <<set(v, 2),
                   PrintStmt(Str("in")),
                   PrintStmt(BinaryExpr(Ref("a", 3), OpToken("Slash", 3), Num(0))),
                   PrintStmt(Str("after")),
                   set(9, 4)>>
      first == VariableStmt(Id("a", 1), Num(0))
      last == PrintStmt(Ref("a", 7))
  IN CASE kind = "block" -> <<first, BlockStmt(failing), last>>
       [] kind = "nested" ->
            <<first,
              BlockStmt(<<BlockStmt(failing), PrintStmt(Str("outer")), set(9, 5)>>),
              last>>
       [] kind = "function" ->
            <<first,
              BlockStmt(<<FunctionStmt(Id("f", 1), <<>>, failing),
                          ExpressionStmt(CallOf("f", <<>>, 6)),
                          PrintStmt(Str("outer")), set(9, 5)>>),
              last>>

AbortPrograms == {AbortProgram(k, v) : k \in AbortKinds, v \in 0..MaxVal}

\* names the resolver records nothing for, used where the current
\* environment is not the global one:
\*   var a = 1; { funk f() { print a; a = 7; } var a = 5; f(); print a; }
\*   print a;
\*   { var b = 1; print zz; }  { var b = 1; zz = 2; }  print "next";
LateProgram ==
  <<VariableStmt(Id("a", 1), Num(1)),
    BlockStmt(<<FunctionStmt(Id("f", 2), <<>>,
                  <<PrintStmt(Ref("a", 2)),
                    ExpressionStmt(AssignExpr(Id("a", 3), Num(7)))>>),
                VariableStmt(Id("a", 4), Num(5)),
                ExpressionStmt(CallOf("f", <<>>, 5)),
                PrintStmt(Ref("a", 6))>>),
    PrintStmt(Ref("a", 7))>>

UndefinedProgram ==
  <<BlockStmt(<<VariableStmt(Id("b", 1), Num(1)), PrintStmt(Ref("zz", 2))>>),
    BlockStmt(<<VariableStmt(Id("b", 3), Num(1)),
                ExpressionStmt(AssignExpr(Id("zz", 4), Num(2)))>>),
    PrintStmt(Str("next"))>>

DynamicPrograms == {LateProgram, UndefinedProgram}

\* funk g(x, y) { print "invoked"; }   funk p(x) { print x; return x; }
\* funk c() { print "callee"; return <callee>; }
\* c()(<arguments>);   print "next";
\* the callee is g, a value that is no callable, or fails; an argument is
\* p(i), or p(i) / 0, which fails after p(i) printed i
CalleeKinds == {"function", "number", "string", "bool", "null", "array", "error"}
ArgumentLists == {<<"ok", "ok">>, <<"error", "ok">>, <<"ok", "error">>,
                  <<"error", "error">>, <<"ok">>, <<>>}

CalleeValue(kind) ==
  CASE kind = "function" -> Ref("g", 3)
    [] kind = "number" -> Num(5)
    [] kind = "string" -> Str("g")
    [] kind = "bool" -> LiteralExpr(Bool(TRUE))
    [] kind = "null" -> LiteralExpr(Null)
    [] kind = "array" -> ArrayExpr(<<Num(1)>>)
    [] kind = "error" -> BinaryExpr(Num(1), OpToken("Slash", 3), Num(0))

CallArgument(kind, i) ==
  IF kind = "ok" THEN CallOf("p", <<Num(i)>>, 4)
  ELSE BinaryExpr(CallOf("p", <<Num(i)>>, 4), OpToken("Slash", 4), Num(0))

CallOrderProgram(callee, arguments) ==
  <<FunctionStmt(Id("g", 1), <<Id("x", 1), Id("y", 1)>>, <<PrintStmt(Str("invoked"))>>),
    FunctionStmt(Id("p", 2), <<Id("x", 2)>>,
      <<PrintStmt(Ref("x", 2)), ReturnStmt(Id("return", 2), Ref("x", 2))>>),
    FunctionStmt(Id("c", 3), <<>>,
      <<PrintStmt(Str("callee")), ReturnStmt(Id("return", 3), CalleeValue(callee))>>),
    ExpressionStmt(CallExpr(CallOf("c", <<>>, 4), OpToken("RightParen", 4),
                            [i \in DOMAIN arguments |-> CallArgument(arguments[i], i)])),
    PrintStmt(Str("next"))>>

CallOrderPrograms ==
  {CallOrderProgram(c, a) : c \in CalleeKinds, a \in ArgumentLists}

\* var v = 1;  class C { m(p) { print v; return p; } }  and then nothing,
\* var C = 2;  or  print C;  at top level or in a block
ClassAfters == {"none", "redeclare", "reference"}

ClassScopeStatements(after) ==
  <<VariableStmt(Id("v", 1), Num(1)),
    ClassStmt(Id("C", 2),
              <<FunctionStmt(Id("m", 2), <<Id("p", 2)>>,
                             <<PrintStmt(Ref("v", 3)),
                               ReturnStmt(Id("return", 4), Ref("p", 4))>>)>>)>>
  \o CASE after = "none" -> <<>>
       [] after = "redeclare" -> <<VariableStmt(Id("C", 5), Num(2))>>
       [] after = "reference" -> <<PrintStmt(Ref("C", 5))>>

ClassScopeProgram(placement, after) ==
  IF placement = "block"
    THEN <<BlockStmt(ClassScopeStatements(after))>>
    ELSE ClassScopeStatements(after)

ClassScopePrograms ==
  {ClassScopeProgram(p, a) : p \in ClassPlacements, a \in ClassAfters}

\* funk f(p) {}  { var a = f(a); print 7; }  print 8;
\* or the same with the initializer [a]
NestedSelfRefForms == {"call", "array"}

NestedSelfRefProgram(form) ==
  <<FunctionStmt(Id("f", 1), <<Id("p", 1)>>, <<>>),
    BlockStmt(<<VariableStmt(Id("a", 2),
                             IF form = "call" THEN CallOf("f", <<Ref("a", 2)>>, 2)
                                              ELSE ArrayExpr(<<Ref("a", 2)>>)),
                PrintStmt(Num(7))>>),
    PrintStmt(Num(8))>>

NestedSelfRefPrograms == {NestedSelfRefProgram(f) : f \in NestedSelfRefForms}

\* print <l> % <r>;  print "next";
ModuloProgram(l, r) ==
  <<PrintStmt(BinaryExpr(Num(l), OpToken("Modulo", 1), Num(r))),
    PrintStmt(Str("next"))>>

ModuloPrograms == {ModuloProgram(l, r) : l \in 0..MaxVal, r \in 0..MaxVal}

\* var x = 0;  var y = 0;  print (x = <left>) <op> (y = <right>);
\* print "next";
OperandKinds == {"number", "string", "bool", "null", "array", "callable"}

NumericOperators ==
  {"Greater", "GreaterEqual", "Less", "LessEqual", "Minus", "Star", "Slash", "Modulo"}

Operand(kind) ==
  CASE kind = "number" -> Num(MaxVal)
    [] kind = "string" -> Str("ab")
    [] kind = "bool" -> LiteralExpr(Bool(TRUE))
    [] kind = "null" -> LiteralExpr(Null)
    [] kind = "array" -> ArrayExpr(<<Num(1)>>)
    [] kind = "callable" -> Ref("clock", 3)

OperandProgram(left, right, op) ==
  <<VariableStmt(Id("x", 1), Num(0)),
    VariableStmt(Id("y", 2), Num(0)),
    PrintStmt(BinaryExpr(GroupingExpr(AssignExpr(Id("x", 3), Operand(left))),
                         OpToken(op, 3),
                         GroupingExpr(AssignExpr(Id("y", 3), Operand(right))))),
    PrintStmt(Str("next"))>>

OperandPrograms ==
  {OperandProgram(l, r, o) : l \in OperandKinds, r \in OperandKinds,
                             o \in NumericOperators}

\* var y = 0;  print <left> <and|or> (y = <right>);  print y;
LogicalLefts == {"false", "null", "true", "zero", "empty", "array", "callable"}

LogicalRights == {"false", "string", "number"}

LogicalOperators == {"And", "Or"}

LogicalOperand(kind) ==
  CASE kind = "false" -> LiteralExpr(Bool(FALSE))
    [] kind = "null" -> LiteralExpr(Null)
    [] kind = "true" -> LiteralExpr(Bool(TRUE))
    [] kind = "zero" -> Num(0)
    [] kind = "empty" -> Str("")
    [] kind = "array" -> ArrayExpr(<<>>)
    [] kind = "callable" -> Ref("clock", 2)
    [] kind = "string" -> Str("r")
    [] kind = "number" -> Num(MaxVal)

LogicalProgram(left, right, op) ==
  <<VariableStmt(Id("y", 1), Num(0)),
    PrintStmt(LogicalExpr(LogicalOperand(left), OpToken(op, 2),
                          GroupingExpr(AssignExpr(Id("y", 2), LogicalOperand(right))))),
    PrintStmt(Ref("y", 3))>>

LogicalPrograms ==
  {LogicalProgram(l, r, o) : l \in LogicalLefts, r \in LogicalRights,
                             o \in LogicalOperators}

Programs ==
  GeneratedPrograms \cup ShadowPrograms \cup CounterPrograms \cup SharedPrograms
  \cup ArityPrograms \cup SelfRefPrograms \cup DupPrograms \cup RedeclarePrograms \cup ReturnPrograms \cup DivisionPrograms \cup IndexPrograms \cup ExitPrograms \cup PlusPrograms \cup InstanceCallPrograms \cup NativePrograms \cup RecursionPrograms \cup NodePrograms \cup ResultPrograms \cup AbortPrograms \cup DynamicPrograms \cup CallOrderPrograms \cup ClassScopePrograms \cup NestedSelfRefPrograms \cup ModuloPrograms \cup OperandPrograms \cup LogicalPrograms

(***************************************************************************)
(* The run of one program (lib.rs run: resolve, then interpret).           *)
(***************************************************************************)
VARIABLES
  program,            \* the statements the parser handed over
  phase,              \* where `run` is: "resolve", "interpret", "done", or
                      \* "panicked" (process aborted), "diverged" (out of fuel)
  rpc,                \* index of the next top-level statement to resolve
  ipc,                \* index of the next top-level statement to interpret
  scopes,             \* Resolver.scopes
  current_function,   \* Resolver.current_function
  run_error_handler,  \* the ErrorHandler created by run, used by the resolver
  locals,             \* Interpreter.locals, the resolver's side table
  heap,               \* the environments (Interpreter.global is heap[1])
  environment,        \* Interpreter.environment
  output,             \* the lines written to standard output
  error_handler,      \* Interpreter.error_handler
  instances,          \* the JasnInstances (Rc<RefCell<JasnInstance>> by index)
  fuel,               \* calls and loop iterations left
  events,             \* history: environment accesses, definitions, calls
  executed            \* history: the top-level statements interpret ran,
                      \* each with the result of its execute

vars == <<program, phase, rpc, ipc, scopes, current_function, run_error_handler,
          locals, heap, environment, output, error_handler, instances, fuel,
          events, executed>>

resolver_vars == <<scopes, current_function, run_error_handler, locals>>
interpreter_vars ==
  <<heap, environment, output, error_handler, instances, fuel, events, executed>>

Init ==
  /\ program \in Programs
  /\ phase = "resolve"
  /\ rpc = 1
  /\ ipc = 1
  /\ scopes = <<>>
  /\ current_function = "None"
  /\ run_error_handler = ErrorHandler_new
  /\ locals = [e \in {} |-> 0]
  /\ heap = Interpreter_new_heap
  /\ environment = global
  /\ output = <<>>
  /\ error_handler = ErrorHandler_new
  /\ instances = <<>>
  /\ fuel = MaxFuel
  /\ events = <<>>
  /\ executed = <<>>

\* resolver.resolve_block(&statements), one statement of the program
ResolveStatement ==
  /\ phase = "resolve"
  /\ rpc <= Len(program)
  /\ \E a \in {resolve_block_step(
                   [scopes |-> scopes, current_function |-> current_function,
                    locals |-> locals, error_handler |-> run_error_handler],
                   program[rpc])} :
        /\ scopes' = a.rs.scopes
        /\ current_function' = a.rs.current_function
        /\ locals' = a.rs.locals
        /\ run_error_handler' = a.rs.error_handler
        /\ phase' = IF a.r.tag = "Ok" THEN "resolve" ELSE "panicked"
  /\ rpc' = rpc + 1
  /\ UNCHANGED <<program, ipc>>
  /\ UNCHANGED interpreter_vars

\* run: `if error_handler.borrow().had_error { return; }` after the pass
AfterResolve ==
  /\ phase = "resolve"
  /\ rpc > Len(program)
  /\ phase' = run_after_resolve(run_error_handler.had_error)
  /\ UNCHANGED <<program, rpc, ipc>>
  /\ UNCHANGED resolver_vars
  /\ UNCHANGED interpreter_vars

\* interpreter.interpret(statements), one statement of the program
InterpretStatement ==
  /\ phase = "interpret"
  /\ ipc <= Len(program)
  /\ \E st \in {[heap |-> heap, environment |-> environment, locals |-> locals,
                   output |-> output, error_handler |-> error_handler,
                   instances |-> instances, fuel |-> fuel, events |-> events]} :
      \E a \in {interpret_step(st, program[ipc])},
         result \in {execute(st, program[ipc]).r} :
        /\ heap' = a.st.heap
        /\ environment' = a.st.environment
        /\ output' = a.st.output
        /\ error_handler' = a.st.error_handler
        /\ instances' = a.st.instances
        /\ fuel' = a.st.fuel
        /\ events' = a.st.events
        /\ executed' = Append(executed, [index |-> ipc, r |-> result])
        /\ phase' = CASE a.r.tag = "Ok" -> "interpret"
                      [] a.r.tag = "Panic" -> "panicked"
                      [] a.r.tag = "Diverge" -> "diverged"
  /\ ipc' = ipc + 1
  /\ UNCHANGED <<program, rpc>>
  /\ UNCHANGED resolver_vars

\* interpret returns after the last statement
Finish ==
  /\ phase = "interpret"
  /\ ipc > Len(program)
  /\ phase' = "done"
  /\ UNCHANGED <<program, rpc, ipc>>
  /\ UNCHANGED resolver_vars
  /\ UNCHANGED interpreter_vars

Next == ResolveStatement \/ AfterResolve \/ InterpretStatement \/ Finish

Spec == Init /\ [][Next]_vars

(***************************************************************************)
(* Properties.                                                             *)
(***************************************************************************)
\* the run is over: `run` returned, the process aborted, or the fuel ran out
Over == phase \in {"done", "panicked", "diverged"}

EventsOf(kind) == {i \in DOMAIN events : events[i].ev = kind}

\* C1: every resolved variable reference or assignment, when it is evaluated
\* with its recorded distance d, finds d parent links above the current
\* environment a frame that binds the name: get_at returns the value and
\* assign_at overwrites an existing binding.
C1_DistanceReachesDefiningFrame ==
  /\ \A i \in EventsOf("get_at") : events[i].r.tag = "Ok"
  /\ \A i \in EventsOf("assign_at") : events[i].bound

\* C2: the counter program (a closure returned from a call that increments
\* and prints a local of that call), called twice, prints 1 and then 2.
C2_CounterPrintsOneThenTwo ==
  (program \in CounterPrograms /\ Over) => output = <<"1", "2">>

\* C3: two functions declared in the same scope share the variable of that
\* scope: after set() assigned v to x, show() prints v, wherever the scope
\* is (top level, a block, a function body).
C3_SiblingFunctionsShareBinding ==
  \A v \in 1..MaxVal, p \in Placements, o \in BOOLEAN :
    (program = SharedProgram(v, p, o) /\ Over) => output = <<NumStr(v)>>

\* C4: every call of a user function runs the body in a new frame whose
\* parent is the closure, and binding the parameters changes no frame that
\* existed before the call (neither the closure's nor the caller's).
C4_CallCreatesFrame ==
  \A i \in EventsOf("call") :
    LET e == events[i] IN
    /\ e.environment > e.frames
    /\ e.environment \in DOMAIN e.bound
    /\ e.bound[e.environment].enclosing = e.closure
    /\ SubSeq(e.bound, 1, e.frames) = e.before

\* a heap differs from another at most in the binding of one name of one frame
OnlyBindingChanged(before, after, frame, name) ==
  /\ DOMAIN after = DOMAIN before
  /\ \A f \in DOMAIN before :
       /\ after[f].enclosing = before[f].enclosing
       /\ f # frame => after[f] = before[f]
       /\ \A n \in (DOMAIN before[f].values \cup DOMAIN after[f].values) \ {name} :
            /\ n \in DOMAIN before[f].values
            /\ n \in DOMAIN after[f].values
            /\ after[f].values[n] = before[f].values[n]

\* the definitions `var a` executed so far
DefinitionsOf(name) == {i \in EventsOf("define") : events[i].name = name}

\* C5: a variable declaration changes the binding of its name in the current
\* frame and nothing else; in `var a = v1; { var a = v2; print a; } print a;`
\* at any placement the inner declaration binds a in the block's own frame,
\* a child of the frame of the outer a, whose binding keeps v1, and the
\* program prints v2, then v1.
C5_Shadowing ==
  /\ \A i \in EventsOf("define") :
       /\ OnlyBindingChanged(events[i].before, events[i].after,
                             events[i].environment, events[i].name)
       /\ events[i].name \in DOMAIN events[i].after[events[i].environment].values
  /\ \A v1 \in 0..MaxVal, v2 \in 0..MaxVal, p \in Placements, o \in BOOLEAN :
       program = ShadowProgram(v1, v2, p, o) =>
         /\ phase # "panicked"
         /\ \A i \in DefinitionsOf("a"), j \in DefinitionsOf("a") :
              i < j =>
                LET outer == events[i].environment
                    inner == events[j].environment
                IN /\ inner # outer
                   /\ events[j].after[inner].enclosing = outer
                   /\ events[j].after[outer].values["a"] = Number(v1)
                   /\ events[j].after[inner].values["a"] = Number(v2)
         /\ phase = "done" => output = <<NumStr(v2), NumStr(v1)>>

C5_Witness ==
  /\ program = ShadowProgram(1, 2, "block_function", TRUE)
  /\ phase = "done"
  /\ output = <<"2", "1">>
  /\ Cardinality(DefinitionsOf("a")) = 2

\* C6: once the resolver has reported a static error, nothing is ever
\* interpreted (no statement executed, nothing printed, no frame created or
\* changed), and statements are interpreted only after the whole resolver
\* pass has finished without a reported error.
C6_StaticErrorPreventsInterpretation ==
  /\ run_error_handler.log # <<>> =>
       /\ run_error_handler.had_error
       /\ phase # "interpret"
       /\ executed = <<>>
       /\ output = <<>>
       /\ heap = Interpreter_new_heap
       /\ environment = global
  /\ (phase = "interpret" \/ executed # <<>>) =>
       /\ rpc = Len(program) + 1
       /\ run_error_handler.log = <<>>

C6_Witness ==
  /\ phase = "done"
  /\ run_error_handler.log # <<>>
  /\ rpc = Len(program) + 1
  /\ \E i \in DOMAIN program : program[i].k = "Print"

\* C7: the Return signal never reaches the error handler: the interpreter's
\* handler is never invoked with it, and it sets no error flag.
C7_ReturnNeverReported ==
  /\ \A i \in DOMAIN error_handler.log : error_handler.log[i].k # "Return"
  /\ ~error_handler.had_error

\* C8: interpret runs the top-level statements in program order, each once;
\* a statement that fails with a runtime error is reported and interpret goes
\* on: when interpret returns, every statement has been executed.
C8_InterpretContinuesAfterError ==
  /\ \A i \in DOMAIN executed : executed[i].index = i
  /\ phase \in {"interpret", "done"} => Len(executed) = ipc - 1
  /\ (phase = "done" /\ ~run_error_handler.had_error) => Len(executed) = Len(program)
  /\ \A i \in DOMAIN executed :
       (executed[i].r.tag = "Err" /\ executed[i].r.e.k = "RuntimeError") =>
         /\ \E j \in DOMAIN error_handler.log : error_handler.log[j] = executed[i].r.e
         /\ error_handler.had_runtime_error
         /\ i = Len(executed) => phase \in {"interpret", "done"}

C8_Witness ==
  /\ program = ArityProgram(1, 2)
  /\ phase = "done"
  /\ Len(executed) = 3
  /\ executed[2].r = Err(RuntimeError(2, "Expected 1 arguments but found 2."))
  /\ executed[3].r.tag = "Ok"
  /\ output = <<"next">>

\* C9: a call whose number of arguments differs from the declared arity
\* (parameter count, native arity) does not invoke the callable.
C9_ArityMismatchPreventsCall ==
  \A i \in EventsOf("visit_call") :
    events[i].supplied # events[i].declared => ~events[i].invoked

AlreadyDeclared == "There's already a variable with this name in this scope."

\* the resolver reported the message
Reported(msg) ==
  \E i \in DOMAIN run_error_handler.log :
    /\ run_error_handler.log[i].k = "ResolverError"
    /\ run_error_handler.log[i].msg = msg

\* C11 as claimed: a name declared twice in one scope, whichever scope that
\* is, is reported as a static error and nothing executes; a name of an
\* enclosing scope declared again in an inner scope is accepted.
C11_DuplicateDeclarationRejected ==
  /\ program \in DupPrograms =>
       /\ rpc = Len(program) + 1 =>
            run_error_handler.had_error /\ Reported(AlreadyDeclared)
       /\ executed = <<>>
  /\ program \in RedeclarePrograms => run_error_handler.log = <<>>

\* C11 amended: two declarations of a name in one block or function body,
\* and two parameters of one name, are reported as a static error and
\* nothing executes; two declarations at top level are accepted without a
\* report and the program is interpreted; a name of an enclosing scope
\* declared again in an inner scope is accepted.
C11_LocalDuplicateDeclarationRejected ==
  /\ \A k \in DupKinds, p \in Placements, o \in BOOLEAN :
       program = DupProgram(k, p, o) =>
         IF k = "params" \/ p \in LocalPlacements
           THEN /\ rpc = Len(program) + 1 =>
                     run_error_handler.had_error /\ Reported(AlreadyDeclared)
                /\ phase \in {"resolve", "done"}
                /\ executed = <<>>
                /\ output = <<>>
           ELSE /\ run_error_handler.log = <<>>
                /\ phase = "done" => Len(executed) = Len(program) /\ output = <<"7">>
  /\ program \in RedeclarePrograms =>
       /\ run_error_handler.log = <<>>
       /\ phase = "done" => output = <<"7">>

C11_Witness ==
  /\ program = DupProgram("var_var", "block", FALSE)
  /\ phase = "done"
  /\ run_error_handler.had_error
  /\ run_error_handler.log =
       <<ResolverError(Id("a", 2), AlreadyDeclared)>>

TopLevelReturn == "Can't return from top-level code."

\* C12: a return that is not inside a function body (bare, or in a block,
\* an if or a while at top level) is reported by the resolver as a static
\* error and nothing executes, whatever statement precedes it, a function
\* declaration included; a return in a function body is not reported, and
\* the call returns its value.
C12_TopLevelReturnRejected ==
  \A c \in ReturnContexts, p \in ReturnPrecedings :
    /\ program = OutsideReturnProgram(c, p) =>
         /\ rpc = Len(program) + 1 =>
              run_error_handler.had_error /\ Reported(TopLevelReturn)
         /\ executed = <<>>
    /\ program = InsideReturnProgram(c, p) =>
         /\ ~Reported(TopLevelReturn)
         /\ (p # "function_same_params" /\ phase = "done") => output = <<"1">>

\* C13: a division of two numbers whose right operand is zero raises the
\* RuntimeError "Division by zero." for every left operand and prints
\* nothing; a division by one yields the left operand.
C13_DivisionByZeroRaises ==
  \A l \in Dividends, f \in DivisionForms, o \in DivisionOperators :
    (program = DivisionProgram(l, f, o) /\ Len(executed) >= 2) =>
      IF f \in ZeroForms
        THEN /\ executed[2].r = Err(RuntimeError(2, "Division by zero."))
             /\ error_handler.had_runtime_error
             /\ phase = "done" => output = <<"next">>
        ELSE /\ executed[2].r = Ok(Null)
             /\ phase = "done" => output = <<NumStr(l), "next">>

C13_Witness ==
  /\ program = DivisionProgram(2, "variable", "Slash")
  /\ phase = "done"
  /\ executed[2].r = Err(RuntimeError(2, "Division by zero."))
  /\ output = <<"next">>

\* C14: indexing an array with a number in 0 .. length - 1 yields that
\* element; every other index on an array (a negative number, a number
\* that is at least the length, a value that is no number) and every index
\* on a value that is no array raise a RuntimeError.
C14_IndexInBoundsOrError ==
  \A i \in EventsOf("index") :
    LET e == events[i] IN
    IF /\ e.object.t = "Array"
       /\ e.index.t = "Number"
       /\ 0 <= e.index.n
       /\ e.index.n < Len(e.object.elems)
      THEN e.r = Ok(e.object.elems[e.index.n + 1])
      ELSE e.r.tag = "Err" /\ e.r.e.k = "RuntimeError"

(***************************************************************************)
(* The interpreter on its own.  The resolver of this source aborts on      *)
(* every property access (visit_get, visit_set are todo!()), so `run`      *)
(* never interprets one; here Interpreter::interpret is applied to         *)
(* top-level statements, for which the resolver records no distance.       *)
(***************************************************************************)
InterpreterInit ==
  /\ program \in InterpreterPrograms
  /\ phase = "interpret"
  /\ rpc = 1
  /\ ipc = 1
  /\ scopes = <<>>
  /\ current_function = "None"
  /\ run_error_handler = ErrorHandler_new
  /\ locals = [e \in {} |-> 0]
  /\ heap = Interpreter_new_heap
  /\ environment = global
  /\ output = <<>>
  /\ error_handler = ErrorHandler_new
  /\ instances = <<>>
  /\ fuel = MaxFuel
  /\ events = <<>>
  /\ executed = <<>>

InterpreterNext == InterpretStatement \/ Finish

InterpreterSpec == InterpreterInit /\ [][InterpreterNext]_vars

\* the set events on the instance and field of event i that precede it
SetsBefore(i) ==
  {j \in EventsOf("set") : /\ j < i
                           /\ events[j].instance = events[i].instance
                           /\ events[j].name = events[i].name}

Latest(S) == CHOOSE j \in S : \A k \in S : k <= j

\* C15: every call of a class yields an instance that did not exist
\* before, without fields, and leaves the other instances as they were; a
\* Set changes the fields of its own instance only; a Get on an instance
\* yields the value of the latest Set of that field on that same instance,
\* and no field when there is none.
C15_InstancesIndependent ==
  /\ \A i \in EventsOf("instantiate") :
       LET e == events[i] IN
       /\ e.instance \notin DOMAIN e.before
       /\ e.instance \in DOMAIN e.after
       /\ e.after[e.instance].fields = EmptyMap
       /\ \A j \in DOMAIN e.before : e.after[j] = e.before[j]
  /\ \A i \in EventsOf("set") :
       LET e == events[i] IN
       /\ DOMAIN e.after = DOMAIN e.before
       /\ e.after[e.instance].fields[e.name] = e.value
       /\ \A j \in DOMAIN e.before : j # e.instance => e.after[j] = e.before[j]
  /\ \A i \in EventsOf("get") :
       LET e == events[i] IN
       IF SetsBefore(i) = {}
         THEN e.r.tag = "Ok" => e.r.v.t = "Callable"
         ELSE e.r = Ok(events[Latest(SetsBefore(i))].value)

\* a.x = 1;  b.x = 2;  print a.x;
C15_Witness ==
  /\ program = InstancePrologue \o
                 <<ExpressionStmt(SetExpr(Ref("a", 4), Id("x", 4), Num(1))),
                   ExpressionStmt(SetExpr(Ref("b", 4), Id("x", 4), Num(2))),
                   PrintStmt(GetExpr(Ref("a", 5), Id("x", 5)))>>
  /\ phase = "done"
  /\ Len(instances) = 2
  /\ output = <<"1">>

\* C16: every exit of execute_block (the block or function body completed,
\* raised a runtime error, or returned) leaves the current environment the
\* one that was current on entry, and between the top-level statements the
\* current environment is the global one.
C16_EnvironmentRestored ==
  /\ \A i \in EventsOf("execute_block") :
       events[i].environment = events[i].previous
  /\ phase \in {"interpret", "done"} => environment = global

\* funk wrap() { { var a = 1; print a / 0; } } wrap();  print "next";
C16_Witness ==
  /\ program = ExitProgram("runtime_error", "function_block")
  /\ phase = "done"
  /\ output = <<"next">>
  /\ environment = global
  /\ \E i \in EventsOf("execute_block") :
       /\ events[i].r = Err(RuntimeError(2, "Division by zero."))
       /\ events[i].left # events[i].previous
       /\ events[i].environment = events[i].previous

\* what an operand of a plus program is as a number, and as the string
\* that `print` shows
PlusNumbers == {"zero", "number"}
PlusStrings == {"string", "empty"}

PlusNumber(operand) == IF operand = "zero" THEN 0 ELSE MaxVal

PlusDisplay(operand) ==
  CASE operand = "zero" -> "0"
    [] operand = "number" -> NumStr(MaxVal)
    [] operand = "string" -> "x"
    [] operand = "empty" -> ""
    [] operand = "yeah" -> "yeah"
    [] operand = "nah" -> "nah"
    [] operand = "null" -> "null"
    [] operand = "array" -> "[1, y]"
    [] operand = "native" -> "<fn native>"

\* C17: `+` on two numbers is their sum; otherwise, when at least one
\* operand is a string, it is the concatenation of the two operands, the
\* one that is no string as its display string; otherwise it raises a
\* RuntimeError and nothing is printed.
C17_PlusSumsOrConcatenates ==
  \A l \in PlusOperands, r \in PlusOperands, o \in PlusOperators :
    (program = PlusProgram(l, r, o) /\ Len(executed) >= 1) =>
      IF l \in PlusNumbers /\ r \in PlusNumbers
        THEN /\ executed[1].r = Ok(Null)
             /\ output[1] = NumStr(PlusNumber(l) + PlusNumber(r))
      ELSE IF l \in PlusStrings \/ r \in PlusStrings
        THEN /\ executed[1].r = Ok(Null)
             /\ output[1] = PlusDisplay(l) \o PlusDisplay(r)
      ELSE /\ executed[1].r.tag = "Err"
           /\ executed[1].r.e.k = "RuntimeError"
           /\ phase = "done" => output = <<"next">>

\* print 2 + "x";  prints 2x
C17_Witness ==
  /\ program = PlusProgram("number", "string", "Plus")
  /\ phase = "done"
  /\ output = <<NumStr(MaxVal) \o "x", "next">>

\* C18: a call whose callee is an instance raises a RuntimeError at the
\* call site for every number of arguments, zero included: nothing is
\* invoked, the interpreter does not abort and goes on with the next
\* statement.
C18_InstanceCallRaises ==
  /\ \A i \in EventsOf("visit_call") :
       events[i].kind = "Instance" => ~events[i].invoked
  /\ \A n \in 0..MaxArgs :
       (program = InstanceCallProgram(n) /\ Len(executed) >= 3) =>
         /\ executed[3].r.tag = "Err"
         /\ executed[3].r.e.k = "RuntimeError"
         /\ executed[3].r.e.line = 3
         /\ phase # "panicked"
         /\ phase = "done" => output = <<"next">>

\* the get events that yielded a method
MethodGets ==
  {i \in EventsOf("get") : /\ events[i].r.tag = "Ok"
                           /\ events[i].r.v.t = "Callable"
                           /\ events[i].r.v.c.kind = "Function"}

\* C19: a method obtained by Get on an instance closes over that instance:
\* its closure binds `this` to the instance it was obtained from, methods
\* obtained from two instances are different values, and calling a method
\* that returns `this` yields the instance.
C19_MethodBoundToInstance ==
  /\ \A i \in MethodGets :
       LET e == events[i]
           closure == e.heap[e.r.v.c.closure].values
       IN /\ "this" \in DOMAIN closure
          /\ closure["this"].t = "Callable"
          /\ closure["this"].c.kind = "Instance"
          /\ closure["this"].c.ref = e.instance
  /\ \A i \in MethodGets, j \in MethodGets :
       events[i].instance # events[j].instance => events[i].r # events[j].r
  /\ (program = ThisProgram /\ Len(executed) >= 3) =>
       /\ executed[3].r = Ok(Null)
       /\ output[1] = "<\"C\" instance>"

\* the natives and their arities as the specification lists them
ListedNatives ==
  [clock |-> 0, input |-> 0, len |-> 1, print |-> 1, sleep |-> 1]

\* the global frame binds the name to a native function of that arity
BoundToNative(name) ==
  /\ name \in DOMAIN heap[global].values
  /\ heap[global].values[name].t = "Callable"
  /\ heap[global].values[name].c.kind = "NativeFunction"
  /\ heap[global].values[name].c.arity = ListedNatives[name]

\* C20: before the first user statement runs the global environment binds
\* exactly clock, input, len, print and sleep, each to a native function of
\* its arity (0, 0, 1, 1, 1); afterwards a name stays bound to its native
\* until a user declaration in the global frame redefines it, and a call
\* with another number of arguments reports the native's arity.
C20_NativesInstalled ==
  /\ executed = <<>> =>
       /\ DOMAIN heap[global].values = DOMAIN ListedNatives
       /\ \A name \in DOMAIN ListedNatives : BoundToNative(name)
  /\ \A name \in DOMAIN ListedNatives :
       \/ BoundToNative(name)
       \/ \E i \in DefinitionsOf(name) : events[i].environment = global
  /\ \A name \in DOMAIN ListedNatives :
       (program = NativeProgram(name, TRUE) /\ Len(executed) >= 1) =>
         executed[1].r =
           Err(RuntimeError(1, "Expected " \o NumStr(ListedNatives[name])
                               \o " arguments but found "
                               \o NumStr(ListedNatives[name] + 1) \o "."))

\* len("ab", "ab");  var len = 7;  print len;
C20_Witness ==
  /\ program = NativeProgram("len", TRUE)
  /\ phase = "done"
  /\ output = <<"7">>
  /\ heap[global].values["len"] = Number(7)
  /\ \A name \in DOMAIN ListedNatives \ {"len"} : BoundToNative(name)

\* what the activations f(0), .., f(n0) print when each reads its own n and
\* local after the inner call returned: 0 0 1 1 .. n0 n0
RECURSIVE OwnBindingsOutput(_, _)
OwnBindingsOutput(n, n0) ==
  IF n > n0 THEN <<>>
  ELSE <<NumStr(n), NumStr(n)>> \o OwnBindingsOutput(n + 1, n0)

\* C21: an activation of a function that calls itself, directly or through
\* another function, with another argument reads after the inner call the
\* values of its parameter and its local that it had before the call.
C21_ActivationsHaveOwnBindings ==
  \A k \in RecursionKinds, n0 \in 0..MaxVal :
    (program = RecursionProgram(k, n0) /\ phase = "done") =>
      output = OwnBindingsOutput(0, n0)

\* C22: the distance used for a node is the one the resolver computed for
\* that very node, and a node it recorded nothing for has none, also when
\* another node of the same name on the same line was resolved at another
\* depth: the programs run without error and print the same whether their
\* nodes are on one line or on lines of their own.
C22_SideTableKeyedByNode ==
  \A k \in NodeKinds, o \in BOOLEAN :
    (program = NodeProgram(k, o) /\ Over) =>
      /\ phase = "done"
      /\ error_handler.log = <<>>
      /\ output = NodeOutput(k)

\* C23: the result of a call is the value of the first return executed in
\* the body, wherever it is nested, and nothing of the body runs after it;
\* a body that ends without a return yields null; a runtime error of the
\* body is the error of the call.
C23_CallResultIsFirstReturn ==
  /\ \A k \in ReturningKinds, v \in 0..MaxVal :
       (program = ResultProgram(k, v) /\ Len(executed) >= 2) =>
         /\ executed[2].r = Ok(Null)
         /\ output = IF Len(executed) = 2 THEN <<"before", NumStr(v)>>
                     ELSE <<"before", NumStr(v), "next">>
  /\ (program = NoReturnProgram /\ Len(executed) >= 2) =>
       /\ executed[2].r = Ok(Null)
       /\ SubSeq(output, 1, 3) = <<"before", "body", "null">>
  /\ \A v \in 0..MaxVal :
       (program = ResultProgram("runtime_error", v) /\ Len(executed) >= 2) =>
         /\ executed[2].r = Err(RuntimeError(2, "Division by zero."))
         /\ output = IF Len(executed) = 2 THEN <<"before">> ELSE <<"before", "next">>

\* funk f() { print "before"; if (yeah) while (yeah) { return 2; print
\* "after"; } print "after"; return "late"; }  print f();  print "next";
C23_Witness ==
  /\ program = ResultProgram("nested", MaxVal)
  /\ phase = "done"
  /\ output = <<"before", NumStr(MaxVal), "next">>

\* C24: the first statement of a block that fails with a runtime error
\* ends the block: the statements after it do not run, the statement that
\* holds the block fails with that error, and what ran before the failure
\* keeps its effect (the output and the assignment are still there).
C24_ErrorAbortsBlock ==
  \A k \in AbortKinds, v \in 0..MaxVal :
    (program = AbortProgram(k, v) /\ Len(executed) >= 2) =>
      /\ executed[2].r = Err(RuntimeError(3, "Division by zero."))
      /\ heap[global].values["a"] = Number(v)
      /\ output = IF Len(executed) = 2 THEN <<"in">> ELSE <<"in", NumStr(v)>>

\* var a = 0;  { { a = 2; print "in"; print a / 0; print "after"; a = 9; }
\* print "outer"; a = 9; }  print a;
C24_Witness ==
  /\ program = AbortProgram("nested", MaxVal)
  /\ phase = "done"
  /\ executed[2].r = Err(RuntimeError(3, "Division by zero."))
  /\ output = <<"in", NumStr(MaxVal)>>

\* the reports of runtime errors, and the top-level statements that failed
\* with one; a statement raises at most one, the first ends it
RuntimeErrorReports ==
  {i \in DOMAIN error_handler.log : error_handler.log[i].k = "RuntimeError"}

FailedStatements ==
  {j \in DOMAIN executed : /\ executed[j].r.tag = "Err"
                           /\ executed[j].r.e.k = "RuntimeError"}

\* C25: a runtime error is reported to the error handler exactly once
\* before the next top-level statement starts, however deep in blocks and
\* function calls the failing statement is: there are as many reports as
\* top-level statements that failed.
C25_ErrorReportedOnce ==
  phase \in {"interpret", "done"} =>
    Cardinality(RuntimeErrorReports) = Cardinality(FailedStatements)

Undefined(token) ==
  Err(RuntimeError(token.line, "Undefined variable '" \o token.lexeme \o "'"))

\* a lookup or an assignment without a recorded distance reads or
\* overwrites the binding of the global frame, and fails when there is none
DynamicAccessIsGlobal ==
  /\ \A i \in EventsOf("get_global") :
       LET e == events[i]
           name == e.expr.name
       IN e.r = IF name.lexeme \in DOMAIN e.heap[global].values
                  THEN Ok(e.heap[global].values[name.lexeme])
                  ELSE Undefined(name)
  /\ \A i \in EventsOf("assign_global") :
       LET e == events[i]
           name == e.expr.name
       IN IF name.lexeme \in DOMAIN e.before[global].values
            THEN e.r = Ok(Null) /\ e.after = define(e.before, global, name.lexeme, e.value)
            ELSE e.r = Undefined(name) /\ e.after = e.before

\* a lookup or an assignment with a recorded distance d works on the frame
\* d parent links above the current environment
ResolvedAccessIsAtDistance ==
  /\ \A i \in EventsOf("get_at") :
       LET e == events[i]
           frame == ancestor(e.heap, e.environment, e.distance)
       IN e.r.tag = "Ok" =>
            /\ frame # 0
            /\ e.r.v = e.heap[frame].values[e.expr.name.lexeme]
  /\ \A i \in EventsOf("assign_at") :
       LET e == events[i]
           frame == ancestor(e.before, e.environment, e.distance)
       IN e.r.tag = "Ok" =>
            /\ frame # 0
            /\ e.after = define(e.before, frame, e.expr.name.lexeme, e.value)

\* C26: a reference or assignment the resolver recorded no distance for is
\* served by the global frame only, whatever the current environment is,
\* and fails with an undefined-variable error when the global frame has no
\* such name; one with a recorded distance d uses the frame d links above
\* the current environment.  The top-level nodes of the node programs, for
\* which the resolver records nothing, read and overwrite the global a.
C26_UnresolvedIsGlobal ==
  /\ DynamicAccessIsGlobal
  /\ ResolvedAccessIsAtDistance
  /\ (program = LateProgram /\ phase = "done") => output = <<"1", "5", "7">>
  /\ (program = UndefinedProgram /\ phase = "done") =>
       /\ executed[1].r = Undefined(Id("zz", 2))
       /\ executed[2].r = Undefined(Id("zz", 4))
       /\ "zz" \notin DOMAIN heap[global].values
  /\ \A o \in BOOLEAN :
       /\ (program = NodeProgram("unresolved_read", o) /\ Len(executed) = 3) =>
            executed[3].r = Ok(Null) /\ output = <<"2", "1">>
       /\ (program = NodeProgram("unresolved_assign", o) /\ Len(executed) >= 3) =>
            executed[3].r = Ok(Null) /\ heap[global].values["a"] = Number(3)

\* the arguments that are evaluated: all up to and with the first that fails
RECURSIVE EvaluatedArguments(_, _)
EvaluatedArguments(arguments, i) ==
  IF i > Len(arguments) THEN <<>>
  ELSE IF arguments[i] = "error" THEN <<NumStr(i)>>
  ELSE <<NumStr(i)>> \o EvaluatedArguments(arguments, i + 1)

\* what the call statement of a call-order program prints and yields
CallOrderOutput(callee, arguments) ==
  IF callee = "error" THEN <<"callee">>
  ELSE <<"callee">> \o EvaluatedArguments(arguments, 1)
       \o (IF callee = "function" /\ arguments = <<"ok", "ok">>
             THEN <<"invoked">> ELSE <<>>)

CallOrderResult(callee, arguments) ==
  IF callee = "error" \/ \E i \in DOMAIN arguments : arguments[i] = "error"
    THEN Err(RuntimeError(IF callee = "error" THEN 3 ELSE 4, "Division by zero."))
  ELSE IF callee # "function"
    THEN Err(RuntimeError(4, "Can only call functions and classes."))
  ELSE IF Len(arguments) # 2
    THEN Err(RuntimeError(4, "Expected 2 arguments but found "
                             \o NumStr(Len(arguments)) \o "."))
  ELSE Ok(Null)

\* the order of a call: callee, arguments left to right up to the first
\* failure, the test of the callee, the test of the count, the invocation
CallOrderHolds ==
  \A c \in CalleeKinds, a \in ArgumentLists :
    (program = CallOrderProgram(c, a) /\ Len(executed) >= 4) =>
      /\ executed[4].r = CallOrderResult(c, a)
      /\ output = CallOrderOutput(c, a)
                  \o (IF Len(executed) = 5 THEN <<"next">> ELSE <<>>)

\* C27: a call evaluates the callee, then the arguments from left to right,
\* an error in one of them ending the evaluation; only then it tests that
\* the callee is callable, which a number, a string, a bool, null and an
\* array are not, and that the number of arguments is the arity, and it
\* invokes the callee only when both tests pass.
C27_CallOrder ==
  /\ CallOrderHolds
  /\ \A i \in EventsOf("visit_call") :
       events[i].invoked => events[i].supplied = events[i].declared

\* the names bound in each frame are the same in two heaps
SameNamesBound(before, after) ==
  /\ DOMAIN after = DOMAIN before
  /\ \A f \in DOMAIN before : DOMAIN after[f].values = DOMAIN before[f].values

\* C28: an assignment, resolved (assign_at) or dynamic (assign), that
\* succeeds or fails, leaves the set of names bound in every frame as it
\* was: it creates no binding.
C28_AssignmentCreatesNoBinding ==
  /\ \A i \in EventsOf("assign_at") : SameNamesBound(events[i].before, events[i].after)
  /\ \A i \in EventsOf("assign_global") : SameNamesBound(events[i].before, events[i].after)

\* ---------------------------------------------------------------------------
\* The operations of Environment applied to chains of frames
\* ---------------------------------------------------------------------------

\* the longest chain of frames
MaxFrames == 3

EnvNames == {"a", "b"}

EnvValues == {Number(1), Number(2)}

\* what the values map of a frame can hold
EnvMaps == UNION {[S -> EnvValues] : S \in SUBSET EnvNames}

\* the chains: frame 1 has no enclosing frame, frame i + 1 encloses in frame i
EnvHeaps ==
  {[i \in 1..MaxFrames |-> [enclosing |-> i - 1, values |-> m[i]]] :
     m \in [1..MaxFrames -> EnvMaps]}

EnvironmentInit ==
  /\ program = <<>>
  /\ phase = "environment"
  /\ rpc = 1
  /\ ipc = 1
  /\ scopes = <<>>
  /\ current_function = "None"
  /\ run_error_handler = ErrorHandler_new
  /\ locals = [e \in {} |-> 0]
  /\ heap \in EnvHeaps
  /\ environment \in 1..MaxFrames
  /\ output = <<>>
  /\ error_handler = ErrorHandler_new
  /\ instances = <<>>
  /\ fuel = MaxFuel
  /\ events = <<>>
  /\ executed = <<>>

\* what one operation leaves alone
EnvironmentUnchanged ==
  /\ phase' = "done"
  /\ UNCHANGED <<program, rpc, ipc, environment, output, error_handler, instances,
                 fuel, executed>>
  /\ UNCHANGED resolver_vars

\* environment.define(name, value)
EnvironmentDefine ==
  /\ phase = "environment"
  /\ \E name \in EnvNames, value \in EnvValues :
       /\ heap' = define(heap, environment, name, value)
       /\ events' = <<[ev |-> "Environment::define", environment |-> environment,
                       name |-> name, value |-> value, before |-> heap,
                       after |-> heap']>>
  /\ EnvironmentUnchanged

\* environment.get(&token)
EnvironmentGet ==
  /\ phase = "environment"
  /\ \E name \in EnvNames, line \in 1..2 :
       events' = <<[ev |-> "Environment::get", environment |-> environment,
                    name |-> name, line |-> line, before |-> heap, after |-> heap,
                    r |-> get(heap, environment, Id(name, line))]>>
  /\ UNCHANGED heap
  /\ EnvironmentUnchanged

\* environment.assign(&token, value)
EnvironmentAssign ==
  /\ phase = "environment"
  /\ \E name \in EnvNames, line \in 1..2, value \in EnvValues :
       \E a \in {assign(heap, environment, Id(name, line), value)} :
         /\ heap' = a.heap
         /\ events' = <<[ev |-> "Environment::assign", environment |-> environment,
                         name |-> name, line |-> line, value |-> value,
                         before |-> heap, after |-> a.heap, r |-> a.r]>>
  /\ EnvironmentUnchanged

\* environment.get_at(distance, name)
EnvironmentGetAt ==
  /\ phase = "environment"
  /\ \E name \in EnvNames, distance \in 0..MaxFrames :
       events' = <<[ev |-> "Environment::get_at", environment |-> environment,
                    name |-> name, distance |-> distance, before |-> heap,
                    after |-> heap,
                    r |-> get_at(heap, environment, distance, name)]>>
  /\ UNCHANGED heap
  /\ EnvironmentUnchanged

\* environment.assign_at(distance, &token, value)
EnvironmentAssignAt ==
  /\ phase = "environment"
  /\ \E name \in EnvNames, distance \in 0..MaxFrames, value \in EnvValues :
       \E a \in {assign_at(heap, environment, distance, Id(name, 1), value)} :
         /\ heap' = a.heap
         /\ events' = <<[ev |-> "Environment::assign_at", environment |-> environment,
                         name |-> name, distance |-> distance, value |-> value,
                         before |-> heap, after |-> a.heap, r |-> a.r]>>
  /\ EnvironmentUnchanged

EnvironmentNext ==
  \/ EnvironmentDefine
  \/ EnvironmentGet
  \/ EnvironmentAssign
  \/ EnvironmentGetAt
  \/ EnvironmentAssignAt

EnvironmentSpec == EnvironmentInit /\ [][EnvironmentNext]_vars

\* the frames of the parent chain of env, the nearest first
RECURSIVE Chain(_, _)
Chain(h, env) ==
  IF env = 0 THEN <<>> ELSE <<env>> \o Chain(h, h[env].enclosing)

\* where the frames of the chain that bind the name stand in it
Binders(h, env, name) ==
  {d \in DOMAIN Chain(h, env) : name \in DOMAIN h[Chain(h, env)[d]].values}

\* the first frame of the chain that binds the name
Nearest(h, env, name) ==
  Chain(h, env)[CHOOSE d \in Binders(h, env, name) :
                  \A o \in Binders(h, env, name) : d <= o]

\* h with the name bound to the value in frame f, and nothing else changed
Rebound(h, f, name, value) ==
  [g \in DOMAIN h |->
     IF g = f
       THEN [enclosing |-> h[g].enclosing,
             values |-> [n \in DOMAIN h[g].values \cup {name} |->
                           IF n = name THEN value ELSE h[g].values[n]]]
       ELSE h[g]]

UndefinedVariable(e) ==
  Err(RuntimeError(e.line, "Undefined variable '" \o e.name \o "'"))

GetUsesNearest(e) ==
  /\ e.after = e.before
  /\ IF Binders(e.before, e.environment, e.name) = {}
       THEN e.r = UndefinedVariable(e)
       ELSE e.r = Ok(e.before[Nearest(e.before, e.environment, e.name)].values[e.name])

AssignUsesNearest(e) ==
  IF Binders(e.before, e.environment, e.name) = {}
    THEN e.r = UndefinedVariable(e) /\ e.after = e.before
    ELSE /\ e.r = Ok(Null)
         /\ e.after = Rebound(e.before, Nearest(e.before, e.environment, e.name),
                              e.name, e.value)

\* C29: get(name) returns the value the first frame of the parent chain that
\* binds the name holds, and assign(name, value) overwrites the binding of that
\* frame and of no other; when no frame of the chain binds the name both fail
\* with the undefined-variable error and every frame is as it was.
C29_NearestBinding ==
  /\ \A i \in EventsOf("Environment::get") : GetUsesNearest(events[i])
  /\ \A i \in EventsOf("Environment::assign") : AssignUsesNearest(events[i])

\* an assignment from the innermost frame of a chain whose middle frame is the
\* first to bind the name, the outermost frame binding it to another value
C29_Witness ==
  \E i \in EventsOf("Environment::assign") :
    /\ events[i].environment = 3
    /\ Binders(events[i].before, 3, events[i].name) = {2, 3}
    /\ events[i].before[1].values[events[i].name] # events[i].value
    /\ events[i].after[1] = events[i].before[1]
    /\ events[i].after[2].values[events[i].name] = events[i].value
    /\ events[i].after # events[i].before


\* the frame `distance` parent links above env, 0 when the chain ends before it
FrameAt(h, env, distance) ==
  IF distance + 1 \in DOMAIN Chain(h, env) THEN Chain(h, env)[distance + 1] ELSE 0

DefineTouchesCurrentFrame(e) ==
  e.after = Rebound(e.before, e.environment, e.name, e.value)

GetAtReadsFrameAt(e) ==
  /\ e.after = e.before
  /\ FrameAt(e.before, e.environment, e.distance) # 0 =>
       IF e.name \in DOMAIN e.before[FrameAt(e.before, e.environment, e.distance)].values
         THEN e.r = Ok(e.before[FrameAt(e.before, e.environment, e.distance)].values[e.name])
         ELSE e.r.tag # "Ok"

AssignAtWritesFrameAt(e) ==
  IF FrameAt(e.before, e.environment, e.distance) # 0
    THEN /\ e.r = Ok(Null)
         /\ e.after = Rebound(e.before, FrameAt(e.before, e.environment, e.distance),
                              e.name, e.value)
    ELSE e.after = e.before

\* C30: define binds the name in the current frame only, whether or not it was
\* bound there; get_at and assign_at read and write the frame exactly `distance`
\* parent links above the current one, whatever the nearer and the farther
\* frames bind, and every other frame is as it was.
C30_OneFrameTouched ==
  /\ \A i \in EventsOf("Environment::define") : DefineTouchesCurrentFrame(events[i])
  /\ \A i \in EventsOf("Environment::get_at") : GetAtReadsFrameAt(events[i])
  /\ \A i \in EventsOf("Environment::assign_at") : AssignAtWritesFrameAt(events[i])

\* an assign_at at distance 1 from the innermost of three frames that all bind
\* the name, the nearer and the farther one to another value
C30_Witness ==
  \E i \in EventsOf("Environment::assign_at") :
    /\ events[i].environment = 3
    /\ events[i].distance = 1
    /\ Binders(events[i].before, 3, events[i].name) = {1, 2, 3}
    /\ events[i].before[3].values[events[i].name] # events[i].value
    /\ events[i].before[1].values[events[i].name] # events[i].value
    /\ events[i].after[2].values[events[i].name] = events[i].value
    /\ events[i].after[3] = events[i].before[3]
    /\ events[i].after[1] = events[i].before[1]
    /\ events[i].after # events[i].before


\* the fields with the name bound to the value, the other fields as they were
Upserted(fields, name, value) ==
  [n \in DOMAIN fields \cup {name} |-> IF n = name THEN value ELSE fields[n]]

UndefinedProperty(r, name) ==
  /\ r.tag = "Err"
  /\ r.e.k = "RuntimeError"
  /\ r.e.msg = "Undefined property '" \o name \o "'"

SetUpserts(e) ==
  /\ e.after[e.instance].class = e.before[e.instance].class
  /\ e.after[e.instance].fields =
       Upserted(e.before[e.instance].fields, e.name, e.value)

GetPrefersField(e) ==
  LET instance == e.instances[e.instance] IN
  IF e.name \in DOMAIN instance.fields
    THEN e.r = Ok(instance.fields[e.name])
  ELSE IF e.name \in DOMAIN instance.class.methods
    THEN /\ e.r.tag = "Ok"
         /\ e.r.v.t = "Callable"
         /\ e.r.v.c.kind = "Function"
         /\ e.r.v.c.declaration.name.lexeme = e.name
  ELSE UndefinedProperty(e.r, e.name)

\* C31: a Set on an instance inserts or overwrites the field and nothing else;
\* a Get yields the field when the instance has it, otherwise the method of
\* that name of its class, otherwise the undefined-property error. So a Get
\* after a Set of the same name yields the value set, a method of that name
\* notwithstanding, and a Get of a name never set that is no method fails.
C31_FieldsBeforeMethods ==
  /\ \A i \in EventsOf("set") : SetUpserts(events[i])
  /\ \A i \in EventsOf("get") :
       /\ GetPrefersField(events[i])
       /\ SetsBefore(i) # {} => events[i].r = Ok(events[Latest(SetsBefore(i))].value)
       /\ (/\ SetsBefore(i) = {}
           /\ events[i].name \notin
                DOMAIN events[i].instances[events[i].instance].class.methods) =>
            UndefinedProperty(events[i].r, events[i].name)

\* a.m = 1;  print a.m;  print a.x;  prints 1, then a.x is undefined
C31_Witness ==
  /\ program = InstancePrologue \o
                 <<ExpressionStmt(SetExpr(Ref("a", 4), Id("m", 4), Num(1))),
                   PrintStmt(GetExpr(Ref("a", 6), Id("m", 6))),
                   PrintStmt(GetExpr(Ref("a", 5), Id("x", 5)))>>
  /\ phase = "done"
  /\ output = <<"1">>
  /\ error_handler.had_runtime_error


\* C32: a Get or a Set whose object is no instance (a number, a string, a
\* bool, null, an array, a native function, a user function or a class) raises
\* a RuntimeError at the property name; the failing Set sets no field of any
\* instance and does not evaluate its value expression.
C32_PropertiesOnInstancesOnly ==
  \A o \in PropertyObjects, a \in PropertyAccesses :
    (program = PropertyProgram(o, a) /\ Len(executed) >= 5) =>
      /\ executed[5].r.tag = "Err"
      /\ executed[5].r.e.k = "RuntimeError"
      /\ executed[5].r.e.line = 5
      /\ EventsOf("set") = {}
      /\ EventsOf("assign_global") = {}
      /\ \A i \in DOMAIN instances : instances[i].fields = EmptyMap
      /\ heap[global].values["y"] = Number(0)
      /\ phase = "done" => output = <<"0">>

\* C.x = (y = 1);  print y;  prints 0 after the runtime error
C32_Witness ==
  /\ program = PropertyProgram("class", "set")
  /\ phase = "done"
  /\ Len(instances) = 1
  /\ output = <<"0">>
  /\ error_handler.had_runtime_error


\* the resolver recorded the distance for the reference
ResolvedAt(expr, distance) == expr \in DOMAIN locals /\ locals[expr] = distance

OwnInitializer == "Can't read local variables in its own initializer."

\* C34: a static scope error inside a call argument or an array element is
\* reported like any other static error: the resolver goes on with the next
\* statement and finishes, the process is not aborted, and nothing executes.
C34_NestedStaticErrorReported ==
  program \in NestedSelfRefPrograms =>
    /\ phase # "panicked"
    /\ rpc = Len(program) + 1 => Reported(OwnInitializer)
    /\ executed = <<>>


\* C35: `%` on two numbers with a right operand of zero raises a RuntimeError,
\* as `/` does, and prints nothing; the statement after it runs.
C35_ModuloByZeroRaises ==
  \A l \in 0..MaxVal :
    (program = ModuloProgram(l, 0) /\ Len(executed) >= 1) =>
      /\ executed[1].r.tag = "Err"
      /\ executed[1].r.e.k = "RuntimeError"
      /\ phase = "done" => output = <<"next">>


IndexValue(object) ==
  CASE object = "array" -> Array(<<Number(10), Number(20)>>)
    [] object = "empty" -> Array(<<>>)
    [] object = "number" -> Number(5)
    [] object = "string" -> String("ab")
    [] object = "null" -> Null

AssignIndexIndices ==
  {IndexNumber(n) : n \in IndexNumbers} \cup {LiteralExpr(v) : v \in IndexOthers}

\* C36: an index assignment with a valid index yields the value assigned and
\* stores nothing: the variable holds the array it held before, and a read of
\* the element after the assignment yields what the read before it yielded;
\* with an index or an object that the read rejects, the assignment raises the
\* RuntimeError that the read raises.
C36_IndexAssignmentStoresNothing ==
  \A o \in IndexObjects, index \in AssignIndexIndices :
  (program = AssignIndexProgram(o, index) /\ Len(executed) >= 3) =>
    /\ heap[global].values["a"] = IndexValue(o)
    /\ IF executed[2].r.tag = "Ok"
         THEN /\ executed[3].r.tag = "Ok"
              /\ Len(output) >= 2 /\ output[2] = "7"
              /\ phase = "done" => output = <<output[1], "7", output[1]>>
         ELSE /\ executed[3].r = executed[2].r
              /\ executed[3].r.e.k = "RuntimeError"
              /\ output = <<>>

\* var a = [10, 20];  print a[1];  print a[1] = 7;  print a[1];
C36_Witness ==
  /\ program = AssignIndexProgram("array", IndexNumber(1))
  /\ phase = "done"
  /\ output = <<"20", "7", "20">>


\* the names assigned, in the order of the assignments
AssignedNames ==
  [i \in 1..Cardinality(EventsOf("assign_global")) |->
     LET k == CHOOSE k \in EventsOf("assign_global") :
                Cardinality({j \in EventsOf("assign_global") : j <= k}) = i
     IN events[k].expr.name.lexeme]

\* C37: <, <=, >, >=, -, *, / and % first evaluate the left operand, then the
\* right one, and yield a result only when both are numbers; when one of them
\* is a string, a bool, null, an array or a callable they raise a RuntimeError
\* at the operator and nothing is printed.
C37_NumericOperandsRequired ==
  \A l \in OperandKinds, r \in OperandKinds, o \in NumericOperators :
    (program = OperandProgram(l, r, o) /\ Len(executed) >= 3) =>
      /\ AssignedNames = <<"x", "y">>
      /\ heap[global].values["x"] # Number(0)
      /\ heap[global].values["y"] # Number(0)
      /\ IF l = "number" /\ r = "number"
           THEN executed[3].r = Ok(Null) /\ Len(output) >= 1
           ELSE /\ executed[3].r.tag = "Err"
                /\ executed[3].r.e.k = "RuntimeError"
                /\ executed[3].r.e.line = 3
                /\ phase = "done" => output = <<"next">>

\* print (x = 2) < (y = "ab");  both assigned, then the runtime error
C37_Witness ==
  /\ program = OperandProgram("number", "string", "Less")
  /\ phase = "done"
  /\ heap[global].values["x"] = Number(MaxVal)
  /\ heap[global].values["y"] = String("ab")
  /\ output = <<"next">>
  /\ error_handler.had_runtime_error


\* the truthiness rule: false and null are falsy, every other value truthy
Falsy == {"false", "null"}

\* what print shows of the operand
LogicalDisplay(kind) ==
  CASE kind = "false" -> "nah"
    [] kind = "null" -> "null"
    [] kind = "true" -> "yeah"
    [] kind = "zero" -> "0"
    [] kind = "empty" -> ""
    [] kind = "array" -> "[]"
    [] kind = "callable" -> "<fn native>"
    [] kind = "string" -> "r"
    [] kind = "number" -> NumStr(MaxVal)

\* the left operand decides: truthy for or, falsy for and
LeftDecides(left, op) == (op = "Or") <=> (left \notin Falsy)

\* C38: `or` with a truthy left operand and `and` with a falsy one yield the
\* value of the left operand and do not evaluate the right operand; in the
\* other cases the right operand is evaluated and its value is the result.
\* The result is the operand's value, not a bool made of it.
C38_LogicalShortCircuit ==
  \A l \in LogicalLefts, r \in LogicalRights, o \in LogicalOperators :
    (program = LogicalProgram(l, r, o) /\ Len(executed) >= 2) =>
      /\ executed[2].r = Ok(Null)
      /\ IF LeftDecides(l, o)
           THEN /\ EventsOf("assign_global") = {}
                /\ output[1] = LogicalDisplay(l)
                /\ phase = "done" => output = <<LogicalDisplay(l), "0">>
           ELSE /\ Cardinality(EventsOf("assign_global")) = 1
                /\ output[1] = LogicalDisplay(r)
                /\ phase = "done" => output = <<LogicalDisplay(r), LogicalDisplay(r)>>

\* print 0 or (y = "r");  print y;  prints 0 and 0: the number 0 is truthy
C38_Witness ==
  /\ program = LogicalProgram("zero", "string", "Or")
  /\ phase = "done"
  /\ EventsOf("assign_global") = {}
  /\ output = <<"0", "0">>


\* the value is a class of that name whose method table has an entry for the
\* name of every declared method and no other, each a user function made of a
\* declared method of that name and closing over the frame
ClassOf(value, class, frame) ==
  /\ value.t = "Callable"
  /\ value.c.kind = "Class"
  /\ value.c.name = class.name.lexeme
  /\ DOMAIN value.c.methods = {class.methods[i].name.lexeme : i \in DOMAIN class.methods}
  /\ \A n \in DOMAIN value.c.methods :
       /\ value.c.methods[n].kind = "Function"
       /\ value.c.methods[n].closure = frame
       /\ value.c.methods[n].declaration.name.lexeme = n
       /\ \E i \in DOMAIN class.methods : value.c.methods[n].declaration = class.methods[i]

\* C39: executing a class declaration binds the class name in the current
\* frame, first to Null and finally to a Class value whose method table holds
\* a user function for every declared method, closing over the current frame;
\* no other binding and no other frame changes.
C39_ClassDeclaredInCurrentFrame ==
  \A i \in EventsOf("visit_class") :
    LET e == events[i]
        name == e.class.name.lexeme
    IN /\ e.declared = Rebound(e.before, e.environment, name, Null)
       /\ name \in DOMAIN e.after[e.environment].values
       /\ e.after = Rebound(e.before, e.environment, name,
                            e.after[e.environment].values[name])
       /\ ClassOf(e.after[e.environment].values[name], e.class, e.environment)

\* var C = 5; var v = 1; { var w = 2; class C { m() {} n(p) {} } } print C;
C39_Witness ==
  /\ program \in {ClassProgram("block", m) : m \in ClassMethodLists}
  /\ phase = "done"
  /\ output = <<"5">>
  /\ \E i \in EventsOf("visit_class") :
       /\ events[i].environment # global
       /\ Cardinality(DOMAIN events[i].after[events[i].environment].values["C"].c.methods) = 2
       /\ events[i].after[global].values["C"] = Number(5)


\* C40: the scope stack and the function kind of the resolver are balanced:
\* after every top-level statement, with or without a static error reported in
\* it, the stack is as deep and the kind the same as before it, so that both
\* are at their initial values between the statements and after the program.
C40_ResolverBalanced ==
  phase # "panicked" => (scopes = <<>> /\ current_function = "None")
====
